---- MODULE Spec2Model ----
(***************************************************************************)
(* Model of the live probe cache of geointel_standalone (src/app.py):      *)
(* ProbeStore, its RLock/Condition, and the threads that call it.          *)
(*                                                                         *)
(* Producer threads call record(), reader threads call version(), items()  *)
(* and get_ssids(), subscriber threads call wait_for_change().  Every      *)
(* statement executed under the store lock is one step of the thread that  *)
(* holds it; `self._ver += 1` is a load followed by a store.               *)
(***************************************************************************)
EXTENDS Integers, Sequences, FiniteSets, TLC

\* ------------------------------------------------------------------ bounds
\* The wall clock runs from 0 to MaxNow.
MaxNow == 2
\* At most MaxCalls record() calls get past the identifier check.
MaxCalls == 3
\* ProbeStore.ttl and ProbeStore.max_ssids, scaled down from 86400 and 200.
ttl == 1
max_ssids == 2

\* ------------------------------------------------------------------ values
\* Python's None, as an argument value.
None == "<None>"

Writers == {"w1", "w2"}
Readers == {"r1"}
Subs    == {"s1", "s2"}
Threads == Writers \cup Readers \cup Subs
\* The lock has no owner.
Free == "<free>"

\* Arguments the callers pass.
MacInputs  == {"aa", "BB"}
SsidInputs == {None, "", "x", "y"}
\* A timestamp argument is <<n>> for the number n and <<>> for None.
NoTs == <<>>
TsInputs   == {NoTs} \cup {<<n>> : n \in 0 .. MaxNow}
Timeouts   == {0, 1}

Max(a, b) == IF a >= b THEN a ELSE b
Min(a, b) == IF a <= b THEN a ELSE b

\* (mac or "").upper()
Upper(m) ==
  CASE m = None -> ""
    [] m = "aa" -> "AA"
    [] OTHER    -> m

\* ssid if isinstance(ssid, str) else ""
NormSsid(s) == IF s = None THEN "" ELSE s

\* int(ts) if isinstance(ts, (int, float)) else self._now()
NormTs(ts, clock) == IF ts = NoTs THEN clock ELSE ts[1]

\* Order of the name strings under Python's sorted().
Rank(s) ==
  CASE s = ""  -> 0
    [] s = "x" -> 1
    [] s = "y" -> 2
    [] OTHER   -> 3

VARIABLES
  now,      \* time.time(), in whole seconds
  by_mac,   \* ProbeStore._by_mac: the records in dict (insertion) order
  ver,      \* ProbeStore._ver
  lock,     \* owner of ProbeStore._lock, or Free
  waiters,  \* ProbeStore._cv._waiters: subscribers registered in wait()
  pc,       \* position of every thread
  wl,       \* record(): mac_u, s, t and the value loaded by `_ver += 1`
  rl,       \* reader: the call made, its argument and its result
  sl,       \* wait_for_change(): since_ver, endtime, result
  g_by_mac, \* history: the store with every record() applied whole, in lock order
  g_maxTs,  \* history: per identifier, the largest timestamp recorded
  g_done,   \* history: number of record() calls that returned after a write
  hm,       \* _on_eventbus_message: the message each feed thread is handling
  spc,      \* run(): position of the supervisor thread
  backoff,  \* run(): backoff, in units of 10^-7 seconds
  conns,    \* the connections that are open, named by the attempt that made them
  subscribed, \* on_open sent the SUBSCRIBE message on the current connection
  attempts, \* history: number of connection attempts
  delays,   \* history: the arguments of time.sleep, in order
  slept,    \* history: time.sleep ran since the last connection attempt
  ended,    \* history: how the last connection attempt or connection ended
  spos,     \* event_stream(): position of every subscriber's generator
  last_ver, \* event_stream(): last_ver
  changed,  \* event_stream(): changed
  payload,  \* event_stream(): the summary about to be yielded
  g_snap,   \* history: the store when the summary in payload was taken
  emitted,  \* history: what the generator has yielded
  sc_pc,    \* score_candidates: "idle", "done" (result computed), "returned"
  sc_in,    \* score_candidates: candidates, device_ssids, hits_count, base
  sc_out,   \* score_candidates: the list returned
  inbound,  \* history: messages handled on the current connection
  cd,       \* candidates(): the request's locals and its response
  ex,       \* the two name extractors: the map given and what each returned
  wg,       \* WiGLEClient.search_ssid: its locals and the requests it made
  ks,       \* KismetEventStreamer: _started, _stop, its callers and threads
  seen      \* history: the version and the result of every items() call

\* The store and the threads inside its methods.
storeVars == <<now, by_mac, ver, lock, waiters, pc, wl, rl, sl, g_by_mac, g_maxTs, g_done>>
\* The state of the callers of the store.
feedVars == <<hm>>
supVars == <<spc, backoff, conns, subscribed, attempts, delays, slept, ended, inbound>>
streamVars == <<spos, last_ver, changed, payload, g_snap, emitted>>
scoreVars == <<sc_pc, sc_in, sc_out>>
candVars == <<cd>>
extractVars == <<ex>>
wigleVars == <<wg>>
ksVars == <<ks>>
obsVars == <<seen>>
xvars ==
  <<feedVars, supVars, streamVars, scoreVars, candVars, extractVars, wigleVars, ksVars, obsVars>>

vars == <<storeVars, xvars>>

\* The identifiers after normalisation.
StoredMacs == {"", "AA", "BB", "7"}

\* ------------------------------------------------------------- the dict
Keys(d) == {d[i].mac : i \in 1 .. Len(d)}
Has(d, m) == m \in Keys(d)
IndexOf(d, m) == CHOOSE i \in 1 .. Len(d) : d[i].mac = m
Get(d, m) == d[IndexOf(d, m)]
\* The records of the dict.
Recs(d) == {d[i] : i \in 1 .. Len(d)}

\* rec = self._by_mac.get(mac_u); if rec is None: insert {"ts": t, "ssids": set()}
GetOrCreate(d, m, t) ==
  IF Has(d, m) THEN d ELSE Append(d, [mac |-> m, ts |-> t, ssids |-> {}])

\* A record whose time is overwritten by the last call.
NewTsLast(old, t) == t

\* rec["ts"] = max(rec.get("ts", 0), t)
NewTs(old, t) == Max(old, t)
SetTs(d, m, t) ==
  [i \in 1 .. Len(d) |-> IF d[i].mac = m
                         THEN [d[i] EXCEPT !.ts = NewTs(d[i].ts, t)]
                         ELSE d[i]]

\* A cap test that is off by one.
UnderCapInclusive(n) == n <= max_ssids

\* if len(rec["ssids"]) < self.max_ssids: rec["ssids"].add(s)
UnderCap(n) == n < max_ssids
AddSsid(d, m, s) ==
  [i \in 1 .. Len(d) |-> IF d[i].mac = m /\ UnderCap(Cardinality(d[i].ssids))
                         THEN [d[i] EXCEPT !.ssids = @ \cup {s}]
                         ELSE d[i]]

\* A staleness test that also drops the record on the cutoff.
IsStaleInclusive(ts, clock) == ts <= clock - ttl

\* (rec.get("ts") or 0) < cutoff, cutoff = self._now() - self.ttl
IsStale(ts, clock) == ts < clock - ttl

RECURSIVE Filter(_, _)
Filter(d, clock) ==
  IF d = <<>> THEN <<>>
  ELSE IF IsStale(Head(d).ts, clock) THEN Filter(Tail(d), clock)
       ELSE <<Head(d)>> \o Filter(Tail(d), clock)

\* ProbeStore._prune_locked
Prune(d, clock) == Filter(d, clock)

\* Lines 94-100 of record() as one function of the store.
RecordUpdate(d, m, s, t) == AddSsid(SetTs(GetOrCreate(d, m, t), m, t), m, s)


\* ------------------------------------------------------------- rendering
\* Names hidden from display (IGNORED, line 42).
IGNORED == {}

RECURSIVE SortedNames(_)
\* sorted(names)
SortedNames(S) ==
  IF S = {} THEN <<>>
  ELSE LET m == CHOOSE x \in S : \A y \in S : Rank(x) <= Rank(y)
       IN <<m>> \o SortedNames(S \ {m})

\* A count taken after the wildcard was dropped for display.
SsidCountDisplayed(rec) == Cardinality(rec.ssids \ {""})

\* len(rec["ssids"]) (line 113)
SsidCount(rec) == Cardinality(rec.ssids)

\* One element of the list items() builds (lines 111-113), for a given set of
\* names hidden from display.
RenderWith(rec, ignored) ==
  [mac |-> rec.mac, ts |-> rec.ts,
   ssids |-> SortedNames({n \in rec.ssids : n # "" /\ n \notin ignored}),
   ssid_count |-> SsidCount(rec)]

Render(rec) == RenderWith(rec, IGNORED)

\* x goes behind every element whose ts is not smaller: a stable descending sort.
RECURSIVE InsertDesc(_, _)
InsertDesc(sorted, x) ==
  IF sorted = <<>> THEN <<x>>
  ELSE IF Head(sorted).ts >= x.ts THEN <<Head(sorted)>> \o InsertDesc(Tail(sorted), x)
       ELSE <<x>> \o sorted

RECURSIVE SortNewestFirst(_, _)
\* out.sort(key=lambda x: x["ts"] or 0, reverse=True)
SortNewestFirst(done, rest) ==
  IF rest = <<>> THEN done
  ELSE SortNewestFirst(InsertDesc(done, Head(rest)), Tail(rest))

\* Lines 109-116 of items(), on the pruned dict.
ItemsOf(d) == SortNewestFirst(<<>>, [i \in 1 .. Len(d) |-> Render(d[i])])

\* Lines 121-124 of get_ssids().
SsidsOf(d, m) == IF Has(d, m) THEN SortedNames(Get(d, m).ssids) ELSE <<>>

\* ------------------------------------------------------------------ init
IdleW == [mac |-> "", s |-> "", t |-> 0, tmp |-> 0]
IdleR == [op |-> "none", arg |-> "", res |-> <<>>]
IdleS == [since |-> 0, timeout |-> 0, endtime |-> -1, result |-> FALSE, start |-> 0]

\* No feed message is being handled.
NoMsg == [kind |-> "none"]

\* No summary has been taken; nothing has been yielded.
NoRest == [asked |-> FALSE]
NoSnap == [ver |-> -1, live |-> FALSE, rest |-> NoRest]
NoneEmitted == [n |-> 0, kind |-> "none", ver |-> -1]

\* No call of score_candidates is in progress.
NoArgs == [candidates |-> <<>>, device_ssids |-> <<>>, base |-> <<>>]

\* No request of the read path is being served.
NoCand == [pc |-> "idle", route |-> "none", mac |-> None, ssid_only |-> None,
           base |-> <<>>, src |-> "none", dev_ssids |-> <<>>, todo |-> <<>>,
           cache |-> <<>>, rarity_counts |-> <<>>, raw_candidates |-> <<>>,
           status |-> 0, body |-> <<>>]

\* No map has been given to the extractors.
NoExtract == [pc |-> "idle"]

\* No search is running.  next_cursor and the searchAfter parameter are 0 for
\* None and for a parameter that is not set.
NoSearch == [pc |-> "idle", out |-> <<>>, next_cursor |-> 0, searchAfter |-> 0,
             reqs |-> <<>>, last |-> [kind |-> "none"], slept |-> FALSE, res |-> "none"]

\* The threads that call KismetEventStreamer.start().
Callers == {"c1", "c2"}

\* KismetEventStreamer.__init__ (kismet_eventbus.py lines 110-112): _started
\* is False, _stop is clear and there is no thread.  cpc is the position of
\* every caller inside start(), calls the number of start() calls each has
\* made, threads the supervisor threads started so far, and late tells that a
\* connection attempt began after stop().
NewStreamer == [started |-> FALSE, stop |-> FALSE,
                cpc |-> [c \in Callers |-> "idle"], calls |-> [c \in Callers |-> 0],
                threads |-> <<>>, late |-> FALSE]

XInit ==
  /\ hm = [w \in Writers |-> NoMsg]
  /\ spc = "init"
  /\ backoff = 0
  /\ conns = {}
  /\ subscribed = FALSE
  /\ attempts = 0
  /\ delays = <<>>
  /\ slept = FALSE
  /\ ended = "none"
  /\ spos = [s \in Subs |-> "off"]
  /\ last_ver = [s \in Subs |-> 0]
  /\ changed = [s \in Subs |-> FALSE]
  /\ payload = [s \in Subs |-> <<>>]
  /\ g_snap = [s \in Subs |-> NoSnap]
  /\ emitted = [s \in Subs |-> NoneEmitted]
  /\ sc_pc = "idle"
  /\ sc_in = NoArgs
  /\ sc_out = <<>>
  /\ inbound = 0
  /\ cd = NoCand
  /\ ex = NoExtract
  /\ wg = NoSearch
  /\ ks = NewStreamer
  /\ seen = {}

\* The callers of the store take no step.
Keep == UNCHANGED xvars
\* Only the feed handler and the store take a step.
KeepButFeed == UNCHANGED <<supVars, streamVars, scoreVars, candVars, extractVars, wigleVars, ksVars, obsVars>>
\* Only the supervisor takes a step.
KeepButSup ==
  UNCHANGED <<storeVars, feedVars, streamVars, scoreVars, candVars, extractVars, wigleVars, ksVars, obsVars>>
\* Only the store and the summary stream take a step.
KeepButStream == UNCHANGED <<feedVars, supVars, scoreVars, candVars, extractVars, wigleVars, ksVars, obsVars>>
\* Only the scorer takes a step.
KeepButScore ==
  UNCHANGED <<storeVars, feedVars, supVars, streamVars, candVars, extractVars, wigleVars, ksVars, obsVars>>
\* Only the store and a request for candidates take a step.
KeepButCand ==
  UNCHANGED <<feedVars, supVars, streamVars, scoreVars, extractVars, wigleVars, ksVars, obsVars>>
\* Only the extractors take a step.
KeepButExtract ==
  UNCHANGED <<storeVars, feedVars, supVars, streamVars, scoreVars, candVars, wigleVars, ksVars, obsVars>>
\* Only the search takes a step.
KeepButSearch ==
  UNCHANGED <<storeVars, feedVars, supVars, streamVars, scoreVars, candVars, extractVars, ksVars, obsVars>>
\* Only the streamer takes a step.
KeepButStreamer ==
  UNCHANGED <<storeVars, feedVars, supVars, streamVars, scoreVars, candVars, extractVars, wigleVars,
              obsVars>>

Init ==
  /\ now = 0
  /\ by_mac = <<>>
  /\ ver = 0
  /\ lock = Free
  /\ waiters = {}
  /\ pc = [t \in Threads |-> "idle"]
  /\ wl = [w \in Writers |-> IdleW]
  /\ rl = [r \in Readers |-> IdleR]
  /\ sl = [s \in Subs |-> IdleS]
  /\ g_by_mac = <<>>
  /\ g_maxTs = [m \in StoredMacs |-> -1]
  /\ g_done = 0
  /\ XInit

\* ------------------------------------------------------------------ lock
\* A store whose methods do not wait for the lock.
CanAcquireAlways(t) == TRUE

\* threading.RLock.acquire by a thread that does not hold it: blocks while owned.
CanAcquire(t) == lock = Free

InFlight == Cardinality({w \in Writers : pc[w] \notin {"idle", "rejected"}})

\* ------------------------------------------------------------------ clock
\* The clock stops at MaxNow, and no later than a timeout that is still to be
\* added to it can be reached within MaxNow.
Tick ==
  /\ now < MaxNow
  /\ \A s \in Subs : (pc[s] = "wcheck" /\ sl[s].endtime = -1) => now + 1 + sl[s].timeout <= MaxNow
  /\ now' = now + 1
  /\ UNCHANGED <<by_mac, ver, lock, waiters, pc, wl, rl, sl, g_by_mac, g_maxTs, g_done>>

\* ------------------------------------------------------------------ record()
\* A record() without the early return.
IsEmptyMacNever(m) == FALSE

\* if not mac_u (line 89): the identifier is empty after normalisation.
IsEmptyMac(m) == m = ""

\* Lines 87-93: the call, the normalisation, the early return and, for a
\* usable identifier, the entry into `with self._lock`, which waits for the lock.
RecordStart(w, mac, ssid, ts) ==
  /\ pc[w] = "idle"
  /\ IF IsEmptyMac(Upper(mac))
     THEN /\ pc' = [pc EXCEPT ![w] = "rejected"]
          /\ UNCHANGED <<wl, lock, g_by_mac, g_maxTs>>
     ELSE /\ ver + InFlight < MaxCalls
          /\ CanAcquire(w)
          /\ lock' = w
          /\ pc' = [pc EXCEPT ![w] = "upd"]
          /\ wl' = [wl EXCEPT ![w] = [mac |-> Upper(mac), s |-> NormSsid(ssid),
                                      t |-> NormTs(ts, now), tmp |-> 0]]
          /\ g_by_mac' = RecordUpdate(g_by_mac, Upper(mac), NormSsid(ssid), NormTs(ts, now))
          /\ g_maxTs' = [g_maxTs EXCEPT ![Upper(mac)] = Max(@, NormTs(ts, now))]
  /\ UNCHANGED <<now, by_mac, ver, waiters, rl, sl, g_done>>

\* Line 90: return.
RecordRejected(w) ==
  /\ pc[w] = "rejected"
  /\ pc' = [pc EXCEPT ![w] = "idle"]
  /\ UNCHANGED <<now, by_mac, ver, lock, waiters, wl, rl, sl, g_by_mac, g_maxTs, g_done>>

\* Lines 94-98: the record is looked up or created and its time is raised.
RecordUpd(w) ==
  /\ pc[w] = "upd"
  /\ by_mac' = SetTs(GetOrCreate(by_mac, wl[w].mac, wl[w].t), wl[w].mac, wl[w].t)
  /\ pc' = [pc EXCEPT ![w] = "add"]
  /\ UNCHANGED <<now, ver, lock, waiters, wl, rl, sl, g_by_mac, g_maxTs, g_done>>

\* Lines 99-100.
RecordAdd(w) ==
  /\ pc[w] = "add"
  /\ by_mac' = AddSsid(by_mac, wl[w].mac, wl[w].s)
  /\ pc' = [pc EXCEPT ![w] = "prune"]
  /\ UNCHANGED <<now, ver, lock, waiters, wl, rl, sl, g_by_mac, g_maxTs, g_done>>

\* Line 101.
RecordPrune(w) ==
  /\ pc[w] = "prune"
  /\ by_mac' = Prune(by_mac, now)
  /\ g_by_mac' = Prune(g_by_mac, now)
  /\ pc' = [pc EXCEPT ![w] = "verload"]
  /\ wl' = [wl EXCEPT ![w] = IdleW]    \* mac_u, s and t are not read again
  /\ UNCHANGED <<now, ver, lock, waiters, rl, sl, g_maxTs, g_done>>

\* Line 103, self._ver += 1: the load.
RecordVerLoad(w) ==
  /\ pc[w] = "verload"
  /\ wl' = [wl EXCEPT ![w].tmp = ver]
  /\ pc' = [pc EXCEPT ![w] = "verstore"]
  /\ UNCHANGED <<now, by_mac, ver, lock, waiters, rl, sl, g_by_mac, g_maxTs, g_done>>

\* A counter bumped twice per call.
BumpVerTwice(v) == v + 2

\* self._ver += 1, the value stored.
BumpVer(v) == v + 1

\* Line 103, self._ver += 1: the store.
RecordVerStore(w) ==
  /\ pc[w] = "verstore"
  /\ ver' = BumpVer(wl[w].tmp)
  /\ pc' = [pc EXCEPT ![w] = "notify"]
  /\ UNCHANGED <<now, by_mac, lock, waiters, wl, rl, sl, g_by_mac, g_maxTs, g_done>>

\* Line 104, self._cv.notify_all(): every registered waiter is released and
\* taken off the list; it still has to get the lock back.
RecordNotify(w) ==
  /\ pc[w] = "notify"
  /\ waiters' = {}
  /\ pc' = [t \in Threads |->
              IF t = w THEN "release"
              ELSE IF t \in waiters /\ pc[t] = "waiting" THEN "reacquire"
              ELSE pc[t]]
  /\ UNCHANGED <<now, by_mac, ver, lock, wl, rl, sl, g_by_mac, g_maxTs, g_done>>

\* End of the with block: the lock is released and record() returns.
RecordRelease(w) ==
  /\ pc[w] = "release"
  /\ lock' = Free
  /\ pc' = [pc EXCEPT ![w] = "idle"]
  /\ wl' = [wl EXCEPT ![w] = IdleW]
  /\ g_done' = g_done + 1
  /\ UNCHANGED <<now, by_mac, ver, waiters, rl, sl, g_by_mac, g_maxTs>>

\* ------------------------------------------------------------------ readers
\* version(), items() or get_ssids(mac) is called and enters `with self._lock`
\* (lines 79, 107, 120), which waits for the lock; get_ssids normalises its
\* argument first (line 119).
ReaderCall(r, op, mac) ==
  /\ pc[r] = "idle"
  /\ CanAcquire(r)
  /\ lock' = r
  /\ pc' = [pc EXCEPT ![r] = "rbody"]
  /\ rl' = [rl EXCEPT ![r] = [op |-> op, arg |-> IF op = "get_ssids" THEN Upper(mac) ELSE "",
                              res |-> <<>>]]
  /\ UNCHANGED <<now, by_mac, ver, waiters, wl, sl, g_by_mac, g_maxTs, g_done>>

\* Lines 79-80: version() evaluates its return value.
ReaderVersion(r) ==
  /\ pc[r] = "rbody" /\ rl[r].op = "version"
  /\ rl' = [rl EXCEPT ![r].res = <<ver>>]
  /\ pc' = [pc EXCEPT ![r] = "rexit"]
  /\ UNCHANGED <<now, by_mac, ver, lock, waiters, wl, sl, g_by_mac, g_maxTs, g_done>>

\* Lines 108-116: items() prunes, renders and sorts.
ReaderItems(r) ==
  /\ pc[r] = "rbody" /\ rl[r].op = "items"
  /\ by_mac' = Prune(by_mac, now)
  /\ g_by_mac' = Prune(g_by_mac, now)
  /\ rl' = [rl EXCEPT ![r].res = ItemsOf(by_mac')]
  /\ pc' = [pc EXCEPT ![r] = "rexit"]
  /\ UNCHANGED <<now, ver, lock, waiters, wl, sl, g_maxTs, g_done>>

\* Lines 121-124: get_ssids() looks the record up.
ReaderGetSsids(r) ==
  /\ pc[r] = "rbody" /\ rl[r].op = "get_ssids"
  /\ rl' = [rl EXCEPT ![r].res = SsidsOf(by_mac, rl[r].arg)]
  /\ pc' = [pc EXCEPT ![r] = "rexit"]
  /\ UNCHANGED <<now, by_mac, ver, lock, waiters, wl, sl, g_by_mac, g_maxTs, g_done>>

\* End of the with block: the lock is released and rl[r].res goes to the caller.
ReaderExit(r) ==
  /\ pc[r] = "rexit"
  /\ lock' = Free
  /\ pc' = [pc EXCEPT ![r] = "idle"]
  /\ rl' = [rl EXCEPT ![r] = IdleR]
  /\ UNCHANGED <<now, by_mac, ver, waiters, wl, sl, g_by_mac, g_maxTs, g_done>>

\* ------------------------------------------------------- wait_for_change()
\* The value of `endtime` before the first wait (None in Condition.wait_for).
NoEnd == -1

\* lambda: self._ver != since_ver
Changed(s) == ver # sl[s].since

\* A wait that reports the check made before it slept.
WaitResultStale(s) == FALSE

\* The result wait_for() hands back: the predicate, evaluated under the lock
\* after each wait.
WaitResult(s) == Changed(s)

\* A wait without a timeout.
TimedOutNever(s) == FALSE

\* The timed wait of Condition.wait() has run out.
TimedOut(s) == now >= sl[s].endtime

\* Lines 84-85: wait_for_change(since_ver, timeout) enters `with self._cv`,
\* which waits for the lock.  since_ver is a version the store has had.
WaitCall(s, since, timeout) ==
  /\ pc[s] = "idle"
  /\ now + timeout <= MaxNow
  /\ CanAcquire(s)
  /\ lock' = s
  /\ pc' = [pc EXCEPT ![s] = "wcheck"]
  /\ sl' = [sl EXCEPT ![s] = [since |-> since, timeout |-> timeout, endtime |-> NoEnd,
                              result |-> FALSE, start |-> ver]]
  /\ UNCHANGED <<now, by_mac, ver, waiters, wl, rl, g_by_mac, g_maxTs, g_done>>

\* A wait that keeps the store lock while it sleeps.
LockInWaitHeld(s) == s

\* Condition.wait releases the lock (`with self._cv` took it) before it blocks.
LockInWait(s) == Free

\* Line 85, one turn of Condition.wait_for: the predicate is evaluated; if it
\* holds, or the time is used up after a wait, wait_for returns; otherwise the
\* caller registers as a waiter and releases the lock in Condition.wait.
WaitCheck(s) ==
  /\ pc[s] = "wcheck"
  /\ LET res == WaitResult(s)
         end == IF sl[s].endtime = NoEnd THEN now + sl[s].timeout ELSE sl[s].endtime
         out == sl[s].endtime # NoEnd /\ end - now <= 0
     IN IF res \/ out
        THEN /\ sl' = [sl EXCEPT ![s].result = res]
             /\ pc' = [pc EXCEPT ![s] = "wexit"]
             /\ UNCHANGED <<lock, waiters>>
        ELSE /\ sl' = [sl EXCEPT ![s].endtime = end]
             /\ waiters' = waiters \cup {s}
             /\ lock' = LockInWait(s)
             /\ pc' = [pc EXCEPT ![s] = "waiting"]
  /\ UNCHANGED <<now, by_mac, ver, wl, rl, g_by_mac, g_maxTs, g_done>>

\* Condition.wait: the timed acquire of the waiter lock fails.  The caller is
\* still on the waiter list until it has the store lock back.
WaitTimeout(s) ==
  /\ pc[s] = "waiting"
  /\ TimedOut(s)
  /\ pc' = [pc EXCEPT ![s] = "reacquire"]
  /\ UNCHANGED <<now, by_mac, ver, lock, waiters, wl, rl, sl, g_by_mac, g_maxTs, g_done>>

\* The waiter list after a caller that left wait() has the lock back.
Unregister(ws, s) == ws \ {s}

\* Condition.wait, finally: the store lock is taken back and the caller
\* leaves the waiter list.
WaitReacquire(s) ==
  /\ pc[s] = "reacquire"
  /\ CanAcquire(s)
  /\ lock' = s
  /\ waiters' = Unregister(waiters, s)
  /\ pc' = [pc EXCEPT ![s] = "wcheck"]
  /\ UNCHANGED <<now, by_mac, ver, wl, rl, sl, g_by_mac, g_maxTs, g_done>>

\* End of the with block: the lock is released and sl[s].result goes to the caller.
WaitExit(s) ==
  /\ pc[s] = "wexit"
  /\ lock' = Free
  /\ pc' = [pc EXCEPT ![s] = "idle"]
  /\ sl' = [sl EXCEPT ![s] = IdleS]
  /\ UNCHANGED <<now, by_mac, ver, waiters, wl, rl, g_by_mac, g_maxTs, g_done>>

\* ------------------------------------------------- calls that wait for the lock
\* The same calls with the wait for the lock as a position of its own: the
\* caller has reached `with self._lock` and is blocked until the lock is free.

\* Lines 87-93: record() is called with a usable identifier and reaches
\* `with self._lock`.
RecordCall(w, mac, ssid, ts) ==
  /\ pc[w] = "idle"
  /\ ~IsEmptyMac(Upper(mac))
  /\ ver + InFlight < MaxCalls
  /\ pc' = [pc EXCEPT ![w] = "lockwait"]
  /\ wl' = [wl EXCEPT ![w] = [mac |-> Upper(mac), s |-> NormSsid(ssid),
                              t |-> NormTs(ts, now), tmp |-> 0]]
  /\ UNCHANGED <<now, by_mac, ver, lock, waiters, rl, sl, g_by_mac, g_maxTs, g_done>>

\* Line 93: the lock is free and record() takes it.
RecordEnter(w) ==
  /\ pc[w] = "lockwait"
  /\ CanAcquire(w)
  /\ lock' = w
  /\ pc' = [pc EXCEPT ![w] = "upd"]
  /\ g_by_mac' = RecordUpdate(g_by_mac, wl[w].mac, wl[w].s, wl[w].t)
  /\ g_maxTs' = [g_maxTs EXCEPT ![wl[w].mac] = Max(@, wl[w].t)]
  /\ UNCHANGED <<now, by_mac, ver, waiters, wl, rl, sl, g_done>>

\* items() or get_ssids(mac) is called and reaches `with self._lock`.
ReaderWant(r, op, mac) ==
  /\ pc[r] = "idle"
  /\ pc' = [pc EXCEPT ![r] = "lockwait"]
  /\ rl' = [rl EXCEPT ![r] = [op |-> op, arg |-> IF op = "get_ssids" THEN Upper(mac) ELSE "",
                              res |-> <<>>]]
  /\ UNCHANGED <<now, by_mac, ver, lock, waiters, wl, sl, g_by_mac, g_maxTs, g_done>>

\* Lines 107 and 120: the lock is free and the reader takes it.
ReaderEnter(r) ==
  /\ pc[r] = "lockwait"
  /\ CanAcquire(r)
  /\ lock' = r
  /\ pc' = [pc EXCEPT ![r] = "rbody"]
  /\ UNCHANGED <<now, by_mac, ver, waiters, wl, rl, sl, g_by_mac, g_maxTs, g_done>>

\* ------------------------------------------------------- decoded payloads
\* What json.loads returns: None, a string, a number, a list, or a dict as
\* the sequence of its <<key, value>> pairs in insertion order.
JNull == [k |-> "null"]
JStr(x) == [k |-> "str", s |-> x]
JNum(x) == [k |-> "num", n |-> x]
JBool(x) == [k |-> "bool", b |-> x]
JList(xs) == [k |-> "list", items |-> xs]
JObj(ps) == [k |-> "obj", pairs |-> ps]
\* Dicts of one, two and three keys.
Obj1(k1, v1) == JObj(<<(<<k1, v1>>)>>)
Obj2(k1, v1, k2, v2) == JObj(<<(<<k1, v1>>), (<<k2, v2>>)>>)
Obj3(k1, v1, k2, v2, k3, v3) == JObj(<<(<<k1, v1>>), (<<k2, v2>>), (<<k3, v3>>)>>)

\* bool(v)
Truthy(v) ==
  CASE v.k = "null" -> FALSE
    [] v.k = "str"  -> v.s # ""
    [] v.k = "num"  -> v.n # 0
    [] v.k = "bool" -> v.b
    [] v.k = "list" -> v.items # <<>>
    [] v.k = "obj"  -> v.pairs # <<>>

\* a or b
PyOr(a, b) == IF Truthy(a) THEN a ELSE b

\* k in obj
JHas(o, key) == \E i \in 1 .. Len(o.pairs) : o.pairs[i][1] = key

\* obj[k] / obj.get(k): the value under the key, None without it.
JGet(o, key) ==
  IF JHas(o, key)
  THEN o.pairs[CHOOSE i \in 1 .. Len(o.pairs) : o.pairs[i][1] = key][2]
  ELSE JNull

\* str(v): a string is itself, a number its digits; a list or dict gives its
\* repr, kept as one token.
PyStr(v) ==
  CASE v.k = "str"  -> v.s
    [] v.k = "num"  -> ToString(v.n)
    [] v.k = "null" -> "None"
    [] v.k = "bool" -> IF v.b THEN "True" ELSE "False"
    [] v.k = "list" -> "[...]"
    [] v.k = "obj"  -> "{...}"

\* The children a search descends into: dict values, or list items, in order.
Children(v) ==
  CASE v.k = "obj"  -> [i \in 1 .. Len(v.pairs) |-> v.pairs[i][2]]
    [] v.k = "list" -> v.items
    [] OTHER        -> <<>>

\* for k in want_keys: if k in obj: the first wanted key the dict holds.
FirstWanted(o, want_keys) ==
  LET hits == {i \in 1 .. Len(want_keys) : JHas(o, want_keys[i])}
  IN IF hits = {} THEN 0 ELSE CHOOSE i \in hits : \A j \in hits : i <= j

RECURSIVE _deep_find_first(_, _)
RECURSIVE FirstInChildren(_, _)
\* Lines 155-168: the value of the first wanted key of a dict, else the first
\* result that is not None among the children, else None.
_deep_find_first(obj, want_keys) ==
  IF obj.k = "obj" /\ FirstWanted(obj, want_keys) # 0
  THEN JGet(obj, want_keys[FirstWanted(obj, want_keys)])
  ELSE FirstInChildren(Children(obj), want_keys)

\* Lines 159-162 and 164-167.
FirstInChildren(vs, want_keys) ==
  IF vs = <<>> THEN JNull
  ELSE LET r == _deep_find_first(Head(vs), want_keys)
       IN IF r # JNull THEN r ELSE FirstInChildren(Tail(vs), want_keys)

\* ------------------------------------------------- _on_eventbus_message
MacKeys == <<"kismet.device.base.macaddr",
             "dot11.device/kismet.device.base.macaddr",
             "DOT11_NEW_SSID_BASEDEV/kismet.device.base.macaddr">>
SsidKeys == <<"dot11.probedssid.ssid",
              "DOT11_PROBED_SSID/dot11.probedssid.ssid",
              "dot11.device.last_probed_ssid_record/dot11.probedssid.ssid">>
TsKeys == <<"dot11.probedssid.last_time",
            "DOT11_PROBED_SSID/dot11.probedssid.last_time",
            "kismet.device.base.last_time",
            "kismet.common.timestamp">>

\* "PROBED_SSID" in evt_name.upper(), for the event names of the model.
NamesProbe(name) == name \in {"DOT11_PROBED_SSID", "dot11_probed_ssid"}

\* ts.isdigit() and int(ts), for the timestamp strings of the model.
DigitStrings == {"0", "1", "2"}
IntOfDigits(x) == CASE x = "0" -> 0 [] x = "1" -> 1 [] x = "2" -> 2

\* Lines 219-227: the timestamp handed to record(): the number, or None.
FeedTs(ts) ==
  CASE ts.k = "str" /\ ts.s \in DigitStrings -> <<IntOfDigits(ts.s)>>
    [] ts.k = "num"                          -> <<ts.n>>
    [] OTHER                                 -> NoTs

\* ssid if isinstance(ssid, str) else ""
FeedSsid(ssid) == IF ssid.k = "str" THEN ssid.s ELSE ""

\* A feed message: text json.loads rejects, or text it decodes to a value.
TextMsg == [kind |-> "text"]
JsonMsg(v) == [kind |-> "json", js |-> v]

\* Lines 177-229, what one call does: it returns without a record() call
\* ("drop"), an exception leaves it ("raise"), or it calls record().
OnMessage(msg) ==
  IF msg.kind = "text" THEN [out |-> "drop"]                       \* lines 177-180
  ELSE IF msg.js.k # "obj" THEN [out |-> "raise"]                  \* js.get, line 183
  ELSE
    LET js   == msg.js
        evt  == PyOr(JGet(js, "event"), PyOr(JGet(js, "kismet.eventbus.event"), JStr("")))
        mac  == PyOr(_deep_find_first(js, MacKeys), JStr(""))
        ssid == _deep_find_first(js, SsidKeys)
        ts   == _deep_find_first(js, TsKeys)
    IN IF ~Truthy(mac) THEN [out |-> "drop"]                       \* lines 210-211
       ELSE IF Truthy(evt) /\ evt.k # "str" THEN [out |-> "raise"] \* evt_name.upper(), line 215
       ELSE IF Truthy(evt) /\ ~NamesProbe(evt.s) /\ ssid = JNull
            THEN [out |-> "drop"]                                  \* lines 215-216
       ELSE [out |-> "record", mac |-> PyStr(mac), ssid |-> FeedSsid(ssid), ts |-> FeedTs(ts)]

\* The feed thread gets a message (line 171) and runs the handler up to its
\* return, its exception, or the entry of record() into the store lock.
FeedMessage(w, msg) ==
  /\ pc[w] = "idle"
  /\ hm' = [hm EXCEPT ![w] = msg]
  /\ LET o == OnMessage(msg)
     IN CASE o.out = "drop" ->
               /\ pc' = [pc EXCEPT ![w] = "dropped"]
               /\ UNCHANGED <<now, by_mac, ver, lock, waiters, wl, rl, sl,
                              g_by_mac, g_maxTs, g_done>>
          [] o.out = "raise" ->
               /\ pc' = [pc EXCEPT ![w] = "raised"]
               /\ UNCHANGED <<now, by_mac, ver, lock, waiters, wl, rl, sl,
                              g_by_mac, g_maxTs, g_done>>
          [] o.out = "record" -> RecordStart(w, o.mac, o.ssid, o.ts)

\* The handler is left: by a return without a record() call, by the exception,
\* or by the return of record() (line 229).
HandlerReturn(w) ==
  /\ hm[w] # NoMsg
  /\ hm' = [hm EXCEPT ![w] = NoMsg]
  /\ \/ /\ pc[w] \in {"dropped", "raised"}
        /\ pc' = [pc EXCEPT ![w] = "idle"]
        /\ UNCHANGED <<now, by_mac, ver, lock, waiters, wl, rl, sl, g_by_mac, g_maxTs, g_done>>
     \/ RecordRejected(w)
     \/ RecordRelease(w)

\* ------------------------------------------------- summary from the sensor
\* d.get(key, {}) on a dict: the value, or an empty dict without the key.
JGetDict(o, key) == IF JHas(o, key) THEN JGet(o, key) ELSE JObj(<<>>)

\* The first of the keys whose value in the dict is a string, 0 if none.
FirstStrKey(entry, keys) ==
  LET hits == {i \in 1 .. Len(keys) : JGet(entry, keys[i]).k = "str"}
  IN IF hits = {} THEN 0 ELSE CHOOSE i \in hits : \A j \in hits : i <= j

PullKeys == <<"dot11.probedssid.ssid", "ssid", "dot11.ssid", "probedssid.ssid">>

\* Lines 293-313, _pull: the name an entry of the map stands for, or None.
_pull(entry) ==
  IF entry.k = "str" THEN entry
  ELSE IF entry.k # "obj" THEN JNull
  ELSE IF JGet(entry, "dot11.probedssid.nullssid") = JBool(TRUE) THEN JStr("")
  ELSE IF JGet(entry, "ssidlen") = JNum(0) THEN JStr("")
  ELSE IF FirstStrKey(entry, PullKeys) # 0 THEN JGet(entry, PullKeys[FirstStrKey(entry, PullKeys)])
  ELSE LET nested == PyOr(JGet(entry, "dot11"), PyOr(JGet(entry, "probedssid"), JObj(<<>>)))
       IN IF nested.k # "obj" THEN JNull
          ELSE LET v == PyOr(JGet(nested, "probedssid"), JGet(nested, "ssid"))
               IN IF v.k = "obj" /\ JGet(v, "ssid").k = "str" THEN JGet(v, "ssid")
                  ELSE IF v.k = "str" THEN v
                  ELSE JNull

RECURSIVE PullAll(_)
\* Lines 316-324: the names of the entries, in order, entries without a name left out.
PullAll(es) ==
  IF es = <<>> THEN <<>>
  ELSE LET n == _pull(Head(es))
       IN IF n = JNull THEN PullAll(Tail(es)) ELSE <<n.s>> \o PullAll(Tail(es))

\* Lines 290-325: a list or a dict of entries; anything else gives no names.
_extract_ssids_from_map(m) == PullAll(Children(m))

\* Lines 328-334.
extract_probed_ssids(dev) ==
  LET out == _extract_ssids_from_map(JGet(dev, "dot11.device.probed_ssid_map"))
  IN IF out # <<>> THEN out
     ELSE _extract_ssids_from_map(
            JGet(JGetDict(JGetDict(dev, "dot11"), "device"), "probed_ssid_map"))

\* Lines 337-352.
extract_probe_count(dev) ==
  LET c  == JGet(dev, "dot11.device.probed_ssid_count")
      nd == JGetDict(JGetDict(dev, "dot11"), "device")
      c2 == JGet(nd, "probed_ssid_count")
      c3 == JGet(nd, "num_probed_ssids")
      m  == PyOr(JGet(dev, "dot11.device.probed_ssid_map"), JGet(nd, "probed_ssid_map"))
  IN CASE c.k = "num"  -> c.n
       [] c2.k = "num" -> c2.n
       [] c3.k = "num" -> c3.n
       [] m.k = "list" -> Cardinality({i \in 1 .. Len(m.items) : m.items[i].k \in {"obj", "str"}})
       [] m.k = "obj"  -> Len(m.pairs)
       [] OTHER        -> 0

RECURSIVE KeepDisplayed(_)
\* [s for s in ssids_full if s and s not in IGNORED]
KeepDisplayed(names) ==
  IF names = <<>> THEN <<>>
  ELSE IF Head(names) # "" /\ Head(names) \notin IGNORED
       THEN <<Head(names)>> \o KeepDisplayed(Tail(names))
       ELSE KeepDisplayed(Tail(names))

RECURSIVE FilterDevices(_)
\* Lines 371-380: one summary record per device that has probed.
FilterDevices(devs) ==
  IF devs = <<>> THEN <<>>
  ELSE LET d == Head(devs)
           ssids_full == extract_probed_ssids(d)
           ssid_count == extract_probe_count(d)
       IN IF ssid_count <= 0 /\ ssids_full = <<>>
          THEN FilterDevices(Tail(devs))
          ELSE <<[mac |-> JGet(d, "kismet.device.base.macaddr").s,
                  ts |-> JGet(d, "kismet.device.base.last_time").n,
                  ssids |-> KeepDisplayed(ssids_full),
                  ssid_count |-> ssid_count]>> \o FilterDevices(Tail(devs))

\* What kis.recent_devices(limit=200) does: it raises, or it returns devices.
RestFails == [ok |-> FALSE]
RestDevices(devs) == [ok |-> TRUE, devs |-> devs]

\* Lines 365-383: the fallback of _current_summary_items.
RestSummary(rest) ==
  IF ~rest.ok THEN <<>>
  ELSE SortNewestFirst(<<>>, FilterDevices(rest.devs))

\* A summary that never asks the sensor.
UseStoreAlways(items) == TRUE

\* if items: return items (lines 362-363)
UseStore(items) == items # <<>>

\* ------------------------------------------------------- stream_summary
\* timeout=30.0 (line 421).  The model does not measure how long the wait
\* lasts: a timed wait can run out at any moment after it began.
StreamTimeout == 0

\* The outcomes of the sensor query the model draws from.
DevA == JObj(<<(<<"kismet.device.base.macaddr", JStr("AA")>>),
               (<<"kismet.device.base.last_time", JNum(1)>>),
               (<<"dot11.device.probed_ssid_map",
                  JList(<<Obj1("dot11.probedssid.ssid", JStr("x")),
                          Obj1("dot11.probedssid.nullssid", JBool(TRUE))>>)>>),
               (<<"dot11.device.probed_ssid_count", JNum(2)>>)>>)
DevB == JObj(<<(<<"kismet.device.base.macaddr", JStr("BB")>>),
               (<<"kismet.device.base.last_time", JNum(2)>>),
               (<<"dot11.device.probed_ssid_map", JList(<<>>)>>),
               (<<"dot11.device.probed_ssid_count", JNum(0)>>)>>)
DevC == JObj(<<(<<"kismet.device.base.macaddr", JStr("CC")>>),
               (<<"kismet.device.base.last_time", JNum(2)>>),
               (<<"dot11", Obj1("device", Obj1("probed_ssid_map",
                    Obj1("h1", Obj1("dot11", Obj1("probedssid", Obj1("ssid", JStr("y")))))))>>)>>)
RestOutcomes ==
  { RestFails, RestDevices(<<>>), RestDevices(<<DevB>>), RestDevices(<<DevA, DevB, DevC>>) }

\* The client connects and Flask starts the generator (line 413).
StreamConnect(s) ==
  /\ spos[s] = "off"
  /\ spos' = [spos EXCEPT ![s] = "ver0"]
  /\ UNCHANGED <<last_ver, changed, payload, g_snap, emitted>>
  /\ UNCHANGED storeVars

\* Lines 415 and 423: last_ver = PROBES.version(), read under the store lock.
StreamVersion(s) ==
  /\ spos[s] \in {"ver0", "ver"}
  /\ pc[s] = "idle"
  /\ CanAcquire(s)
  /\ last_ver' = [last_ver EXCEPT ![s] = ver]
  /\ spos' = [spos EXCEPT ![s] = "snap"]
  /\ UNCHANGED <<changed, payload, g_snap, emitted>>
  /\ UNCHANGED storeVars

\* Lines 361-363 in lines 416 and 424: items = PROBES.items(), under the store
\* lock; a list that is not empty is the summary.
StreamItems(s) ==
  /\ spos[s] = "snap"
  /\ pc[s] = "idle"
  /\ CanAcquire(s)
  /\ by_mac' = Prune(by_mac, now)
  /\ g_by_mac' = Prune(g_by_mac, now)
  /\ g_snap' = [g_snap EXCEPT ![s] =
                  [ver |-> ver, live |-> \E rec \in Recs(by_mac) : rec.ts >= now - ttl,
                   rest |-> NoRest]]
  /\ IF UseStore(ItemsOf(by_mac'))
     THEN /\ payload' = [payload EXCEPT ![s] = ItemsOf(by_mac')]
          /\ spos' = [spos EXCEPT ![s] = "yield"]
     ELSE /\ payload' = [payload EXCEPT ![s] = <<>>]
          /\ spos' = [spos EXCEPT ![s] = "rest"]
  /\ UNCHANGED <<last_ver, changed, emitted>>
  /\ UNCHANGED <<now, ver, lock, waiters, pc, wl, rl, sl, g_maxTs, g_done>>

\* Lines 365-383: the sensor is asked; no store lock is held.
StreamRest(s, rest) ==
  /\ spos[s] = "rest"
  /\ payload' = [payload EXCEPT ![s] = RestSummary(rest)]
  /\ g_snap' = [g_snap EXCEPT ![s].rest = rest]
  /\ spos' = [spos EXCEPT ![s] = "yield"]
  /\ UNCHANGED <<last_ver, changed, emitted>>
  /\ UNCHANGED storeVars

\* Lines 417 and 425: the summary is yielded.
StreamYield(s) ==
  /\ spos[s] = "yield"
  /\ emitted' = [emitted EXCEPT ![s] =
                   [n |-> Min(@.n + 1, 2), kind |-> "data", ver |-> g_snap[s].ver]]
  /\ payload' = [payload EXCEPT ![s] = <<>>]
  /\ g_snap' = [g_snap EXCEPT ![s] = NoSnap]
  /\ spos' = [spos EXCEPT ![s] = "loop"]
  /\ UNCHANGED <<last_ver, changed>>
  /\ UNCHANGED storeVars

\* A wait that is given the current version.
SinceArgCurrent(s) == ver

\* The first argument of wait_for_change (line 421).
SinceArg(s) == last_ver[s]

\* Line 421: PROBES.wait_for_change(last_ver, timeout=30.0) is called.
StreamWait(s) ==
  /\ spos[s] = "loop"
  /\ WaitCall(s, SinceArg(s), StreamTimeout)
  /\ spos' = [spos EXCEPT ![s] = "inwait"]
  /\ UNCHANGED <<last_ver, changed, payload, g_snap, emitted>>

\* A loop that takes the timeout for a change and the change for a timeout.
AfterWaitSwapped(result) == IF result THEN "beat" ELSE "ver"

\* Lines 422 and 426: if changed / else.
AfterWait(result) == IF result THEN "ver" ELSE "beat"

\* Line 421: wait_for_change returns and its result is assigned to changed.
StreamWaitReturns(s) ==
  /\ spos[s] = "inwait"
  /\ changed' = [changed EXCEPT ![s] = sl[s].result]
  /\ spos' = [spos EXCEPT ![s] = AfterWait(sl[s].result)]
  /\ WaitExit(s)
  /\ UNCHANGED <<last_ver, payload, g_snap, emitted>>

\* Line 428: the keep-alive comment is yielded.
StreamBeat(s) ==
  /\ spos[s] = "beat"
  /\ emitted' = [emitted EXCEPT ![s] = [@ EXCEPT !.n = Min(@ + 1, 2), !.kind = "keep-alive"]]
  /\ spos' = [spos EXCEPT ![s] = "loop"]
  /\ UNCHANGED <<last_ver, changed, payload, g_snap>>
  /\ UNCHANGED storeVars

\* The client goes away: the generator, suspended at a yield, is closed.
StreamDisconnect(s) ==
  /\ spos[s] = "loop"
  /\ spos' = [spos EXCEPT ![s] = "off"]
  /\ last_ver' = [last_ver EXCEPT ![s] = 0]
  /\ changed' = [changed EXCEPT ![s] = FALSE]
  /\ emitted' = [emitted EXCEPT ![s] = NoneEmitted]
  /\ UNCHANGED <<payload, g_snap>>
  /\ UNCHANGED storeVars

\* The steps a connected subscriber takes by itself, the lock permitting.
StreamStep(s) ==
  \/ StreamVersion(s)
  \/ StreamItems(s)
  \/ \E rest \in RestOutcomes : StreamRest(s, rest)
  \/ StreamYield(s)
  \/ StreamWait(s)
  \/ StreamWaitReturns(s)
  \/ StreamBeat(s)

\* ------------------------------------------------ _start_eventbus_thread.run
\* The history keeps the first MaxCycles sleeps.
MaxCycles == 9

\* One second, 1.0, in the unit of backoff.
Unit == 10000000
\* backoff = 1.0 (line 244)
BackoffInit == 1 * Unit
\* 30.0 (line 280)
BackoffCap == 30 * Unit

\* A backoff that doubles.
NextBackoffDouble(b) == Min(b * 2, BackoffCap)

\* min(backoff * 1.7, 30.0) (line 280); every value backoff takes is a
\* multiple of 10 below the cap, so the division is exact.
NextBackoff(b) == Min((b \div 10) * 17, BackoffCap)

\* How a connection attempt or a connection ends.
ConnectEnds == {"refused", "exception"}
OpenEnds == {"socket error", "exception", "clean close"}

\* A loop that ends when the server closes the connection cleanly.
AfterRunStopOnClose(how) == IF how = "clean close" THEN "done" ELSE "sleep"

\* Lines 274-279: run_forever returns, or the exception it raised is caught
\* and logged; either way the loop goes on to time.sleep.
AfterRun(how) == "sleep"

\* run_forever closes its socket before it returns or raises.
Close(cs, id) == cs \ {id}

\* Line 244.
SupStart ==
  /\ spc = "init"
  /\ backoff' = BackoffInit
  /\ spc' = "top"
  /\ UNCHANGED <<conns, subscribed, attempts, delays, slept, ended, inbound>>

\* Lines 246-274: a WebSocketApp is made, the handlers are attached and
\* run_forever starts to connect.
SupAttempt ==
  /\ spc = "top"
  /\ spc' = "connecting"
  /\ attempts' = Min(attempts + 1, MaxCycles)
  /\ subscribed' = FALSE
  /\ slept' = FALSE
  /\ inbound' = 0
  /\ UNCHANGED <<backoff, conns, delays, ended>>

\* The attempt fails: the connection is refused (on_error is called and
\* run_forever returns) or an exception leaves the try block.
SupConnectFails(how) ==
  /\ spc = "connecting"
  /\ spc' = AfterRun(how)
  /\ ended' = how
  /\ UNCHANGED <<backoff, conns, subscribed, attempts, delays, slept, inbound>>

\* The connection is made.
SupConnected ==
  /\ spc = "connecting"
  /\ conns' = conns \cup {attempts}
  /\ spc' = "opened"
  /\ UNCHANGED <<backoff, subscribed, attempts, delays, slept, ended, inbound>>

\* Lines 253-260, on_open: the SUBSCRIBE message is sent; a failure of the
\* send is logged and the connection stays in use.
SupOnOpen(sent) ==
  /\ spc = "opened"
  /\ subscribed' = sent
  /\ spc' = "open"
  /\ UNCHANGED <<backoff, conns, attempts, delays, slept, ended, inbound>>

\* The history counts up to MaxInbound messages of a connection.
MaxInbound == 2

\* Line 250: run_forever reads a message from the open connection and calls
\* _on_eventbus_message with it.
SupMessage ==
  /\ spc = "open"
  /\ inbound' = Min(inbound + 1, MaxInbound)
  /\ UNCHANGED <<spc, backoff, conns, subscribed, attempts, delays, slept, ended>>

\* The connection ends: a socket error (on_error), an exception, or a clean
\* close (on_close); run_forever is left.
SupConnEnds(how) ==
  /\ spc \in {"opened", "open"}
  /\ conns' = Close(conns, attempts)
  /\ spc' = AfterRun(how)
  /\ ended' = how
  /\ UNCHANGED <<backoff, subscribed, attempts, delays, slept, inbound>>

\* Line 279: time.sleep(backoff).
SupSleep ==
  /\ spc = "sleep"
  /\ delays' = IF Len(delays) < MaxCycles THEN Append(delays, backoff) ELSE delays
  /\ slept' = TRUE
  /\ spc' = "slept"
  /\ UNCHANGED <<backoff, conns, subscribed, attempts, ended, inbound>>

\* Line 280, and back to the top of `while True`.
SupBackoff ==
  /\ spc = "slept"
  /\ backoff' = NextBackoff(backoff)
  /\ spc' = "top"
  /\ UNCHANGED <<conns, subscribed, attempts, delays, slept, ended, inbound>>

\* The steps the supervisor thread takes by itself.
SupStep == SupStart \/ SupAttempt \/ SupSleep \/ SupBackoff

\* ------------------------------------------------------- score_candidates
\* Weights are in hundredths.  A position is a point on the meridian lon = 0,
\* its lat counted in kilometres of arc, so that haversine_km is the
\* difference of the lats.

\* cfg["scoring"] defaults (lines 6-10): alpha_coprobe 0.7 and
\* coprobe_radius_m 300; sigma_km is 10.0, rarity_weight and proximity_weight
\* are 1.0.
AlphaPct == 70
RadiusM == 300

Abs(x) == IF x >= 0 THEN x ELSE -x

\* utils.haversine_km, for two points of one meridian.
haversine_km(lat1, lon1, lat2, lon2) == Abs(lat2 - lat1)

RECURSIVE CountSsid(_, _)
\* len(hits) of a name (app.py line 474): its number of candidates.
CountSsid(cands, name) ==
  IF cands = <<>> THEN 0
  ELSE (IF Head(cands).ssid = name THEN 1 ELSE 0) + CountSsid(Tail(cands), name)

\* 100 / log(2 + n)
InvLogPct(n) ==
  CASE n = 1 -> 91
    [] n = 2 -> 72
    [] n = 3 -> 62
    [] n = 4 -> 56
    [] OTHER -> 51

\* A dict with string keys: its items, as <<key, value>>, in insertion order.
DictHas(d, key) == \E i \in 1 .. Len(d) : d[i][1] = key
\* d.get(key, default)
DictGet(d, key, default) ==
  IF DictHas(d, key) THEN d[CHOOSE i \in 1 .. Len(d) : d[i][1] = key][2] ELSE default
\* d[key] = value
DictSet(d, key, value) ==
  IF DictHas(d, key)
  THEN [i \in 1 .. Len(d) |-> IF d[i][1] = key THEN <<key, value>> ELSE d[i]]
  ELSE Append(d, <<key, value>>)

\* Lines 16-18: rarity_w(s), with n = max(1, hits_count.get(s, 1)).
rarity_w(hits_count, name) == InvLogPct(Max(1, DictGet(hits_count, name, 1)))

\* Beyond this many kilometres exp(-d_km / 10) is 0.0: a double cannot hold
\* exp(-746).
UnderflowKm == 7460

\* 100 * exp(-d_km / 10), for the distances of the model.
ExpPct(d_km) ==
  CASE d_km = 0           -> 100
    [] d_km = 5           -> 61
    [] d_km >= UnderflowKm -> 0
    [] OTHER              -> 37

\* A proximity weight that ignores the reference point.
ProxWFlat(base, lat, lon) == 100

\* Lines 20-23: prox_w(lat, lon); base is <<>> (None) or <<lat, lon>>.
prox_w(base, lat, lon) ==
  IF base = <<>> THEN 100
  ELSE ExpPct(haversine_km(lat, lon, base[1], base[2]))

\* Lines 29-31: a hit of the name lies within r_m of the point.
HasHitNear(cands, name, lat, lon) ==
  \E i \in 1 .. Len(cands) :
     /\ cands[i].ssid = name
     /\ haversine_km(lat, lon, cands[i].lat, cands[i].lon) * 1000 <= RadiusM

\* Lines 26-31: cnt, one for every element of device_ssids that is not
\* self_ssid and has a hit near the point.
CoprobeCount(cands, device_ssids, lat, lon, self_ssid) ==
  Cardinality({i \in 1 .. Len(device_ssids) :
                 device_ssids[i] # self_ssid /\ HasHitNear(cands, device_ssids[i], lat, lon)})

\* Line 32: denom = max(1, len(device_ssids) - 1)
CoprobeDenom(device_ssids) == Max(1, Len(device_ssids) - 1)

\* Lines 25-33: coprobe(lat, lon, self_ssid), in hundredths.
coprobe(cands, device_ssids, lat, lon, self_ssid) ==
  (CoprobeCount(cands, device_ssids, lat, lon, self_ssid) * 100) \div CoprobeDenom(device_ssids)

\* Line 38: score = p * (alpha * cp + (1 - alpha)) * r, in units of 10^-8.
Score(cands, device_ssids, hits_count, base, c) ==
  prox_w(base, c.lat, c.lon)
    * (AlphaPct * coprobe(cands, device_ssids, c.lat, c.lon, c.ssid) + (100 - AlphaPct) * 100)
    * rarity_w(hits_count, c.ssid)

\* Line 39: c2 = dict(c); c2["score"] = float(score).
WithScore(c, sc) ==
  [lat |-> c.lat, lon |-> c.lon, ssid |-> c.ssid, lastupdt |-> c.lastupdt, score |-> sc]

\* A sort that puts a candidate before the ones of equal score it meets.
StaysAheadStrict(a, b) == a.score > b.score

\* sorted(..., reverse=True) is stable: an element stays ahead of a later one
\* whose score is not larger.
StaysAhead(a, b) == a.score >= b.score

RECURSIVE InsertByScore(_, _)
InsertByScore(sorted, x) ==
  IF sorted = <<>> THEN <<x>>
  ELSE IF StaysAhead(Head(sorted), x) THEN <<Head(sorted)>> \o InsertByScore(Tail(sorted), x)
       ELSE <<x>> \o sorted

RECURSIVE SortByScore(_, _)
\* sorted(out, key=lambda x: x["score"], reverse=True) (line 41)
SortByScore(done, rest) ==
  IF rest = <<>> THEN done
  ELSE SortByScore(InsertByScore(done, Head(rest)), Tail(rest))

\* Lines 35-41.
score_candidates(cands, device_ssids, hits_count, base) ==
  SortByScore(<<>>, [i \in 1 .. Len(cands) |->
                       WithScore(cands[i],
                                 Score(cands, device_ssids, hits_count, base, cands[i]))])

\* The raw hits the model draws from: two places near the reference point and
\* two far from it, and two names.
MaxHits == 3
Lats == {0, 5, 8000, 9000}
Hits == [lat : Lats, lon : {0}, ssid : {"x", "y"}, lastupdt : {"a"}]
\* The names a device can have probed, in the order the model lists them.
AllNames == <<"x", "y", "z">>
\* rarity_counts as candidates() fills it (app.py line 474): len(hits) for
\* every name.
CountsOf(cands) == [i \in 1 .. Len(AllNames) |-> <<AllNames[i], CountSsid(cands, AllNames[i])>>]
SeqsOf(S, n) == UNION {[1 .. k -> S] : k \in 0 .. n}
\* Lists of hits that differ from one another.
HitLists == {q \in SeqsOf(Hits, MaxHits) : \A i, j \in 1 .. Len(q) : i # j => q[i] # q[j]}
DeviceSsidLists == {<<"x">>, <<"x", "y">>, <<"y", "x", "z">>}
Bases == {<<>>, <<0, 0>>}

\* score_candidates(candidates, device_ssids, hits_count, base, cfg) is called
\* and computes its result.
ScoreCall(cands, device_ssids, base) ==
  /\ sc_pc = "idle"
  /\ sc_in' = [candidates |-> cands, device_ssids |-> device_ssids, base |-> base]
  /\ sc_out' = score_candidates(cands, device_ssids, CountsOf(cands), base)
  /\ sc_pc' = "done"

\* The result is handed to the request that made the call (app.py line 483).
ScoreReturn ==
  /\ sc_pc = "done"
  /\ sc_pc' = "returned"
  /\ UNCHANGED <<sc_in, sc_out>>

\* One request for candidates: the scorer is called with any input of the
\* model and returns.
ScoreNext ==
  \/ \E cands \in HitLists, device_ssids \in DeviceSsidLists, base \in Bases :
       ScoreCall(cands, device_ssids, base) /\ KeepButScore
  \/ ScoreReturn /\ KeepButScore

ScoreSpec == Init /\ [][ScoreNext]_vars

\* ------------------------------------------- KismetClient (kismet_client.py)
\* What a call gives back: the exception that left it, or its return value.
Raised == [ok |-> FALSE]
Returned(v) == [ok |-> TRUE, v |-> v]

\* The place of a value when the expression that computes it raises.
JRaise == [k |-> "raise"]

\* Lines 64-70, _pull(entry): None for an entry that is not a dict; else
\* entry.get("dot11.probedssid.ssid") or, when that is falsy,
\* entry.get("dot11", {}).get("probedssid", {}).get("ssid"), where .get on
\* a value that is not a dict raises AttributeError.
KisPull(entry) ==
  IF entry.k # "obj" THEN JNull
  ELSE LET flat == JGet(entry, "dot11.probedssid.ssid")
           d == JGetDict(entry, "dot11")
       IN IF Truthy(flat) THEN flat
          ELSE IF d.k # "obj" THEN JRaise
          ELSE IF JGetDict(d, "probedssid").k # "obj" THEN JRaise
          ELSE JGet(JGetDict(d, "probedssid"), "ssid")

RECURSIVE KisPullAll(_)
\* Lines 72-82: the values _pull gives that are not None, in order.
KisPullAll(es) ==
  IF es = <<>> THEN Returned(<<>>)
  ELSE LET n == KisPull(Head(es))
           r == KisPullAll(Tail(es))
       IN IF n = JRaise \/ ~r.ok THEN Raised
          ELSE IF n = JNull THEN r
          ELSE Returned(<<n>> \o r.v)

\* Lines 61-82: a list or a dict of entries; anything else gives no names.
_extract_probed_ssids_from_map(m) == KisPullAll(Children(m))

\* What the sensor answers to the requests of device_probes: every request
\* fails with a RequestException, or the device comes back with this map.
SensorDown == [up |-> FALSE]
SensorMap(m) == [up |-> TRUE, m |-> m]

\* Lines 143-212, device_probes(mac): the names extracted from the device's
\* map by the first endpoint that answers; [] when every request raised a
\* RequestException (lines 164, 180, 196, 109-141).
device_probes(answer) ==
  IF ~answer.up THEN Returned(<<>>)
  ELSE _extract_probed_ssids_from_map(answer.m)

\* An entry with its name under the flat key.
NameEntry(name) == Obj1("dot11.probedssid.ssid", JStr(name))

\* The entries a probed-name map can hold: a bare string, an object with the
\* name under the flat key, under "ssid" or nested, the null-SSID marker, a
\* zero length, an empty name, and null.
MapEntries ==
  { JStr("x"), JStr(""), JNull,
    NameEntry("x"), NameEntry("y"), NameEntry(""),
    Obj1("ssid", JStr("x")),
    Obj1("dot11.probedssid.nullssid", JBool(TRUE)),
    Obj2("ssidlen", JNum(0), "dot11.probedssid.ssid", JStr("")),
    Obj1("dot11", Obj1("probedssid", Obj1("ssid", JStr("y")))) }

\* The maps: lists of entries and dicts from hash to entry.
ProbedMaps ==
  {JList(<<>>)} \cup {JList(<<e>>) : e \in MapEntries}
    \cup {JList(<<e1, e2>>) : e1 \in MapEntries, e2 \in MapEntries}
    \cup {JObj(<<(<<"h1", e>>)>>) : e \in MapEntries}
    \cup {JObj(<<(<<"h1", e1>>), (<<"h2", e2>>)>>) : e1 \in MapEntries, e2 \in MapEntries}

\* The same map is given to the extractor of the by-identifier path
\* (kismet_client.py line 61) and to that of the recent-devices path (app.py
\* line 290).
ExtractCall(m) ==
  /\ ex.pc = "idle"
  /\ ex' = [pc |-> "done", m |-> m,
            kis |-> _extract_probed_ssids_from_map(m),
            app |-> _extract_ssids_from_map(m)]

\* Both have returned.
ExtractReturn ==
  /\ ex.pc = "done"
  /\ ex' = NoExtract

ExtractNext ==
  \/ \E m \in ProbedMaps : ExtractCall(m) /\ KeepButExtract
  \/ ExtractReturn /\ KeepButExtract

ExtractSpec == Init /\ [][ExtractNext]_vars

\* ------------------------------------------- WiGLE hits and the hit cache
\* A row of a search result that has a position.
Hit(lat) == [lat |-> lat, lon |-> 0, lastupdt |-> "a"]

\* What the geolocation lookup of one name gives: wigle.search_ssid raises
\* (timeout, or raise_for_status on an error status, wigle_client.py lines
\* 25-28), or the hits of the name come from the search or from the cache.
LookupFails == [ok |-> FALSE]
LookupHits(hits) == [ok |-> TRUE, hits |-> hits]
LookupOutcomes ==
  {LookupFails} \cup
  {LookupHits(h) : h \in {<<>>, <<Hit(0)>>, <<Hit(5)>>, <<Hit(0), Hit(8000)>>}}

\* ------------------------------- KismetEventStreamer (kismet_eventbus.py)
\* Every caller makes at most MaxStarts calls of start().
MaxStarts == 2

\* 15.0 (line 213)
StreamerCap == 15 * Unit

\* Lines 119-120: start() reads _started and returns if it is set.
StartCheck(c) ==
  /\ ks.cpc[c] = "idle" /\ ks.calls[c] < MaxStarts
  /\ ks' = [ks EXCEPT !.cpc[c] = IF ks.started THEN "done" ELSE "checked",
                      !.calls[c] = @ + 1]

\* Line 121: self._started = True
StartFlag(c) ==
  /\ ks.cpc[c] = "checked"
  /\ ks' = [ks EXCEPT !.started = TRUE, !.cpc[c] = "flagged"]

\* Lines 122-123: the thread is made and started; it begins _run_loop with
\* backoff = 1.0 (line 193).
StartThread(c) ==
  /\ ks.cpc[c] = "flagged"
  /\ ks' = [ks EXCEPT !.threads = Append(@, [pc |-> "top", backoff |-> BackoffInit]),
                      !.cpc[c] = "done"]

\* start() has returned; the caller may call again.
StartReturn(c) ==
  /\ ks.cpc[c] = "done"
  /\ ks' = [ks EXCEPT !.cpc[c] = "idle"]

\* Lines 125-126: stop() sets the event, and nothing else.
StopCall ==
  /\ ~ks.stop
  /\ ks' = [ks EXCEPT !.stop = TRUE]

\* Line 194: while not self._stop.is_set()
LoopTest(t) ==
  /\ ks.threads[t].pc = "top"
  /\ ks' = [ks EXCEPT !.threads[t].pc = IF ks.stop THEN "exited" ELSE "connect"]

\* Lines 196-204: a WebSocketApp is made and run_forever starts to connect.
LoopConnect(t) ==
  /\ ks.threads[t].pc = "connect"
  /\ ks' = [ks EXCEPT !.threads[t].pc = "running", !.late = @ \/ ks.stop]

\* run_forever is left: it returns when the connection was refused, broke or
\* was closed by the server, or an exception leaves it (lines 204, 208).
LoopRunEnds(t, how) ==
  /\ ks.threads[t].pc = "running"
  /\ ks' = [ks EXCEPT !.threads[t].pc = IF how = "returns" THEN "ran" ELSE "sleep"]

\* Lines 206-207: if self._stop.is_set(): break
LoopAfterRun(t) ==
  /\ ks.threads[t].pc = "ran"
  /\ ks' = [ks EXCEPT !.threads[t].pc = IF ks.stop THEN "exited" ELSE "sleep"]

\* Lines 212-213: time.sleep(backoff); backoff = min(backoff * 1.7, 15.0)
LoopSleep(t) ==
  /\ ks.threads[t].pc = "sleep"
  /\ ks' = [ks EXCEPT !.threads[t].pc = "top",
                      !.threads[t].backoff = Min((@ \div 10) * 17, StreamerCap)]

\* The steps a supervisor thread takes by itself.
LoopStep(t) == LoopTest(t) \/ LoopConnect(t) \/ LoopAfterRun(t) \/ LoopSleep(t)

\* The steps of a caller inside start().
StartStep(c) == StartFlag(c) \/ StartThread(c) \/ StartReturn(c)

\* Callers of start() and stop(), the supervisor threads, and the network,
\* which ends a connection when it likes.
StreamerNext ==
  \/ \E c \in Callers : StartCheck(c) /\ KeepButStreamer
  \/ \E c \in Callers : StartFlag(c) /\ KeepButStreamer
  \/ \E c \in Callers : StartThread(c) /\ KeepButStreamer
  \/ \E c \in Callers : StartReturn(c) /\ KeepButStreamer
  \/ StopCall /\ KeepButStreamer
  \/ \E t \in 1 .. Len(ks.threads) : LoopTest(t) /\ KeepButStreamer
  \/ \E t \in 1 .. Len(ks.threads) : LoopConnect(t) /\ KeepButStreamer
  \/ \E t \in 1 .. Len(ks.threads), how \in {"returns", "raises"} :
       LoopRunEnds(t, how) /\ KeepButStreamer
  \/ \E t \in 1 .. Len(ks.threads) : LoopAfterRun(t) /\ KeepButStreamer
  \/ \E t \in 1 .. Len(ks.threads) : LoopSleep(t) /\ KeepButStreamer

\* Threads run on: a caller inside start() and a supervisor thread that can
\* take a step take it.  Nothing is assumed of the network.
StreamerFairness ==
  /\ \A c \in Callers : WF_vars(StartStep(c) /\ KeepButStreamer)
  /\ \A t \in 1 .. Cardinality(Callers) : WF_vars(t <= Len(ks.threads) /\ LoopStep(t) /\ KeepButStreamer)

StreamerSpec == Init /\ [][StreamerNext]_vars /\ StreamerFairness

\* ------------------------------------------------- WiGLEClient.search_ssid
\* WiGLEClient.page_cap, scaled down from 400.
page_cap == 2
\* A search makes at most MaxRequests requests in the model.
MaxRequests == 4

\* A row of a result page: with a position, or without one.
Row(lat) == [trilat |-> <<lat>>, trilong |-> <<0>>]
RowNoPos == [trilat |-> <<>>, trilong |-> <<0>>]
Rows == {Row(0), Row(5), RowNoPos}

\* What the service answers to one request: no answer in time, status 429,
\* an error status, or a page of rows with its searchAfter cursor (0: none).
Cursors == {0, 1, 2}
Pages == {<<>>} \cup {<<r>> : r \in Rows} \cup {<<r1, r2>> : r1 \in Rows, r2 \in Rows}
SearchResponses ==
  {[kind |-> "timeout"], [kind |-> "429"], [kind |-> "error"]} \cup
  {[kind |-> "page", results |-> p, searchAfter |-> c] : p \in Pages, c \in Cursors}

\* A cap that is tested only after it has been passed.
CapReachedLate(out) == Len(out) > page_cap

\* len(out) >= self.page_cap (line 35)
CapReached(out) == Len(out) >= page_cap

RECURSIVE TakeRows(_, _)
\* Lines 31-35: the rows with a position are appended until the cap is
\* reached; capped tells whether the loop returned.
TakeRows(out, rows) ==
  IF rows = <<>> THEN [out |-> out, capped |-> FALSE]
  ELSE IF Head(rows).trilat = <<>> \/ Head(rows).trilong = <<>> THEN TakeRows(out, Tail(rows))
  ELSE LET grown == Append(out, Hit(Head(rows).trilat[1]))
       IN IF CapReached(grown) THEN [out |-> grown, capped |-> TRUE]
          ELSE TakeRows(grown, Tail(rows))

\* Line 37: if not next_cursor or not results: break
PagingEnds(cursor, results) == cursor = 0 \/ results = <<>>

\* Lines 10-21: search_ssid is called.
SearchCall ==
  /\ wg.pc = "idle"
  /\ wg' = [NoSearch EXCEPT !.pc = "top"]

\* Lines 23-25: the cursor, if any, becomes the searchAfter parameter and the
\* request is sent.
SearchRequest ==
  /\ wg.pc = "top"
  /\ Len(wg.reqs) < MaxRequests
  /\ LET after == IF wg.next_cursor # 0 THEN wg.next_cursor ELSE wg.searchAfter
     IN wg' = [wg EXCEPT !.pc = "sent", !.searchAfter = after, !.reqs = Append(@, after),
                         !.slept = FALSE]

\* Lines 25-37: the answer is handled.  A timeout and an error status raise;
\* 429 leads to time.sleep(2); a page is read and ends the search or not.
SearchResponse(resp) ==
  /\ wg.pc = "sent"
  /\ CASE resp.kind \in {"timeout", "error"} ->
            wg' = [wg EXCEPT !.pc = "done", !.res = "raised", !.last = [kind |-> resp.kind]]
       [] resp.kind = "429" ->
            wg' = [wg EXCEPT !.pc = "sleep", !.last = [kind |-> "429"]]
       [] resp.kind = "page" ->
            LET t == TakeRows(wg.out, resp.results)
                cursor == IF t.capped THEN wg.next_cursor ELSE resp.searchAfter
                ends == t.capped \/ PagingEnds(cursor, resp.results)
            IN wg' = [wg EXCEPT !.out = t.out, !.next_cursor = cursor,
                               !.last = [kind |-> "page", capped |-> t.capped,
                                         cursor |-> resp.searchAfter,
                                         empty |-> resp.results = <<>>],
                               !.pc = IF ends THEN "done" ELSE "top",
                               !.res = IF ends THEN "returned" ELSE "none"]

\* Line 27: time.sleep(2); continue.
SearchSleep ==
  /\ wg.pc = "sleep"
  /\ wg' = [wg EXCEPT !.pc = "top", !.slept = TRUE]

\* The caller has the hits, or the exception.
SearchReturn ==
  /\ wg.pc = "done"
  /\ wg' = NoSearch

\* One search after another, against a service that answers as it likes.
SearchNext ==
  \/ SearchCall /\ KeepButSearch
  \/ SearchRequest /\ KeepButSearch
  \/ \E resp \in SearchResponses : SearchResponse(resp) /\ KeepButSearch
  \/ SearchSleep /\ KeepButSearch
  \/ SearchReturn /\ KeepButSearch

SearchSpec == Init /\ [][SearchNext]_vars

\* ------------------------------------------------- the read-path endpoints
\* Lines 475-478: the candidates of a name's hits.
CandidatesOf(hits, name) ==
  [i \in 1 .. Len(hits) |->
     [lat |-> hits[i].lat, lon |-> hits[i].lon, ssid |-> name, lastupdt |-> hits[i].lastupdt]]

\* The values of the items of a list of names, for names that are strings.
Strings(vs) == [i \in 1 .. Len(vs) |-> vs[i].s]
AllStrings(vs) == \A i \in 1 .. Len(vs) : vs[i].k = "str"

\* The probed-name maps the sensor returns for a device: lists of entries with
\* one name each, a name given twice, an entry without a name, and an entry
\* whose "dot11" member is not a dict.
SensorAnswers ==
  { SensorDown,
    SensorMap(JList(<<>>)),
    SensorMap(JList(<<NameEntry("x")>>)),
    SensorMap(JList(<<NameEntry("x"), NameEntry("y")>>)),
    SensorMap(JList(<<NameEntry("x"), NameEntry("x"), NameEntry("y")>>)),
    SensorMap(JObj(<<(<<"h1", NameEntry("y")>>), (<<"h2", Obj1("ssidlen", JNum(0))>>)>>)),
    SensorMap(JList(<<Obj1("dot11", JStr("v"))>>)) }

\* request.args.get("mac") and request.args.get("ssid")
RequestMacs == {None, "aa", "BB"}
RequestSsids == {None, "x"}

\* Lines 441-454: the request is read and, with a mac, PROBES.get_ssids(mac)
\* is called; the call holds the store lock from its entry to its return.
CandCall(mac, ssid_only, base) ==
  /\ cd.pc = "idle"
  /\ mac # None => CanAcquire("request")
  /\ LET dev == IF mac # None THEN SsidsOf(by_mac, Upper(mac)) ELSE <<>>
     IN cd' = [NoCand EXCEPT !.pc = IF dev = <<>> /\ mac # None THEN "rest" ELSE "names",
                             !.route = "candidates",
                             !.mac = mac, !.ssid_only = ssid_only, !.base = base,
                             !.src = "store", !.dev_ssids = dev]
  /\ UNCHANGED storeVars

\* Lines 455-459: the store has no names for the mac and kis.device_probes is
\* asked; any exception it raises is swallowed.
CandRest(answer) ==
  /\ cd.pc = "rest"
  /\ LET r == device_probes(answer)
     IN /\ r.ok => AllStrings(r.v)
        /\ cd' = [cd EXCEPT !.pc = "names", !.src = "rest",
                           !.dev_ssids = IF r.ok THEN Strings(r.v) ELSE <<>>]
  /\ UNCHANGED storeVars

\* Lines 461-467: the ssid parameter replaces the list; empty and ignored
\* names are dropped.
CandNames ==
  /\ cd.pc = "names"
  /\ LET dev == KeepDisplayed(IF cd.ssid_only # None THEN <<cd.ssid_only>> ELSE cd.dev_ssids)
     IN cd' = [cd EXCEPT !.pc = "lookup", !.dev_ssids = dev, !.todo = dev]
  /\ UNCHANGED storeVars

\* Lines 468-478, one turn of the loop: the hits of the next name are taken
\* from the cache, where an earlier turn of this request or an earlier request
\* put them, or from wigle.search_ssid, whose exception leaves candidates().
CandLookup(outcome) ==
  /\ cd.pc = "lookup" /\ cd.todo # <<>>
  /\ LET name == Head(cd.todo)
         got == IF DictHas(cd.cache, name)
                THEN LookupHits(DictGet(cd.cache, name, <<>>))
                ELSE outcome
     IN IF ~got.ok
        THEN cd' = [cd EXCEPT !.pc = "done", !.status = 500]
        ELSE cd' = [cd EXCEPT !.todo = Tail(@),
                             !.cache = DictSet(@, name, got.hits),
                             !.rarity_counts = DictSet(@, name, Len(got.hits)),
                             !.raw_candidates = @ \o CandidatesOf(got.hits, name)]
  /\ UNCHANGED storeVars

\* Lines 480-485: the candidates are scored and returned; scored[:500] keeps
\* every candidate of the model.
CandScore ==
  /\ cd.pc = "lookup" /\ cd.todo = <<>>
  /\ cd' = [cd EXCEPT !.pc = "done", !.status = 200,
                     !.body = score_candidates(cd.raw_candidates, cd.dev_ssids,
                                               cd.rarity_counts, cd.base)]
  /\ UNCHANGED storeVars

\* Lines 394-403 and 355-383, /api/summary: the items of the store or, when
\* there are none, the devices the sensor returns; [] when the sensor fails,
\* and an empty list with status 200 for any other exception.
SummaryCall(rest) ==
  /\ cd.pc = "idle"
  /\ CanAcquire("request")
  /\ by_mac' = Prune(by_mac, now)
  /\ g_by_mac' = Prune(g_by_mac, now)
  /\ LET items == ItemsOf(by_mac')
     IN cd' = [NoCand EXCEPT !.pc = "done", !.route = "summary",
                             !.src = IF UseStore(items) THEN "store" ELSE "rest",
                             !.status = 200,
                             !.body = IF UseStore(items) THEN items ELSE RestSummary(rest)]
  /\ UNCHANGED <<now, ver, lock, waiters, pc, wl, rl, sl, g_maxTs, g_done>>

\* The response is sent.
RequestDone ==
  /\ cd.pc = "done"
  /\ cd' = NoCand
  /\ UNCHANGED storeVars

\* ------------------------------------------------------------ specifications
ReaderOps == {"version", "items", "get_ssids"}

WriterStep(w) ==
  \/ RecordUpd(w)
  \/ RecordAdd(w)
  \/ RecordPrune(w)
  \/ RecordVerLoad(w)
  \/ RecordVerStore(w)
  \/ RecordNotify(w)
  \/ RecordRelease(w)

ReaderStep(r) ==
  \/ ReaderVersion(r)
  \/ ReaderItems(r)
  \/ ReaderGetSsids(r)
  \/ ReaderExit(r)

\* The store under producers and readers: every identifier, name and time.
Next ==
  \/ Tick /\ Keep
  \/ \E w \in Writers, mac \in MacInputs, ssid \in SsidInputs, ts \in TsInputs :
       RecordStart(w, mac, ssid, ts) /\ Keep
  \/ \E w \in Writers : WriterStep(w) /\ Keep
  \/ \E r \in Readers, op \in ReaderOps, mac \in MacInputs : ReaderCall(r, op, mac) /\ Keep
  \/ \E r \in Readers : ReaderStep(r) /\ Keep

Spec == Init /\ [][Next]_vars

\* The store with subscribers: one identifier, identifiers that normalise to
\* the empty string, and every version a subscriber can have seen.
WaitMacInputs == {None, "", "aa"}

WaitNext ==
  \/ Tick /\ Keep
  \/ \E w \in Writers, mac \in WaitMacInputs : RecordStart(w, mac, "x", NoTs) /\ Keep
  \/ \E w \in Writers : RecordRejected(w) /\ Keep
  \/ \E w \in Writers : WriterStep(w) /\ Keep
  \/ \E r \in Readers, op \in ReaderOps : ReaderCall(r, op, "aa") /\ Keep
  \/ \E r \in Readers : ReaderStep(r) /\ Keep
  \/ \E s \in Subs, since \in 0 .. ver, timeout \in Timeouts :
       WaitCall(s, since, timeout) /\ Keep
  \/ \E s \in Subs : WaitCheck(s) /\ Keep
  \/ \E s \in Subs : WaitTimeout(s) /\ Keep
  \/ \E s \in Subs : WaitReacquire(s) /\ Keep
  \/ \E s \in Subs : WaitExit(s) /\ Keep

WaitSpec == Init /\ [][WaitNext]_vars

\* The messages of the feed: undecodable text, JSON that is not an object,
\* and objects with the fields present, missing, nested, or of another type.

FeedMessages ==
  { TextMsg,
    JsonMsg(JNull), JsonMsg(JNum(5)), JsonMsg(JStr("x")), JsonMsg(JList(<<>>)),
    JsonMsg(JObj(<<>>)),
    JsonMsg(Obj1(MacKeys[1], JStr("aa"))),
    JsonMsg(Obj3("event", JStr("DOT11_PROBED_SSID"), MacKeys[1], JStr("aa"),
                 SsidKeys[1], JStr("x"))),
    JsonMsg(Obj2("event", JStr("NEW_DEVICE"), MacKeys[1], JStr("aa"))),
    JsonMsg(Obj2("event", JStr("NEW_DEVICE"),
                 "data", Obj3(MacKeys[2], JStr("BB"), SsidKeys[2], JStr("y"),
                              TsKeys[3], JStr("2")))),
    JsonMsg(Obj2("event", JNum(5), MacKeys[1], JStr("aa"))),
    JsonMsg(Obj3(MacKeys[1], JNum(7), SsidKeys[1], JNum(3), TsKeys[1], JStr("abc"))),
    JsonMsg(Obj2("kismet.eventbus.event", JStr("dot11_probed_ssid"),
                 "devices", JList(<<Obj2(MacKeys[3], JStr("BB"), TsKeys[4], JNum(0))>>))),
    JsonMsg(Obj2(MacKeys[1], JNull, "base", Obj1(MacKeys[1], JStr("aa")))),
    JsonMsg(Obj3("event", JNum(5), MacKeys[1], JStr("aa"), SsidKeys[1], JStr("x"))),
    JsonMsg(Obj3(MacKeys[1], JStr("aa"), TsKeys[3], JNum(1),
                 "dot11.device.last_probed_ssid_record",
                 Obj2(SsidKeys[1], JStr("x"), TsKeys[1], JNum(2)))),
    JsonMsg(Obj2("dot11.device.last_probed_ssid_record",
                 Obj2(SsidKeys[1], JStr("y"), TsKeys[1], JNum(2)),
                 "base", Obj2(MacKeys[1], JStr("BB"), TsKeys[3], JNum(1)))) }

\* The feed thread, the store and a reader.
FeedNext ==
  \/ Tick /\ Keep
  \/ \E msg \in FeedMessages : FeedMessage("w1", msg) /\ KeepButFeed
  \/ HandlerReturn("w1") /\ KeepButFeed
  \/ pc["w1"] # "release" /\ WriterStep("w1") /\ Keep
  \/ \E r \in Readers, op \in ReaderOps, mac \in MacInputs : ReaderCall(r, op, mac) /\ Keep
  \/ \E r \in Readers : ReaderStep(r) /\ Keep

FeedSpec == Init /\ [][FeedNext]_vars

\* The read-path endpoints, served while one producer fills the store.  A
\* request reads the store once, at its start, so the producer is left to
\* run between requests.
ReadNext ==
  \/ \E mac \in MacInputs, ssid \in SsidInputs :
       cd.pc = "idle" /\ RecordStart("w1", mac, ssid, NoTs) /\ Keep
  \/ cd.pc = "idle" /\ WriterStep("w1") /\ Keep
  \/ \E mac \in RequestMacs, ssid_only \in RequestSsids, base \in Bases :
       CandCall(mac, ssid_only, base) /\ KeepButCand
  \/ \E answer \in SensorAnswers : CandRest(answer) /\ KeepButCand
  \/ CandNames /\ KeepButCand
  \/ \E outcome \in LookupOutcomes : CandLookup(outcome) /\ KeepButCand
  \/ CandScore /\ KeepButCand
  \/ \E rest \in RestOutcomes : SummaryCall(rest) /\ KeepButCand
  \/ RequestDone /\ KeepButCand

ReadSpec == Init /\ [][ReadNext]_vars

\* The supervisor thread and the connections it makes.  The thread runs on by
\* itself; when a connection ends is up to the network.
SupNext ==
  \/ SupStart /\ KeepButSup
  \/ SupAttempt /\ KeepButSup
  \/ \E how \in ConnectEnds : SupConnectFails(how) /\ KeepButSup
  \/ SupConnected /\ KeepButSup
  \/ \E sent \in BOOLEAN : SupOnOpen(sent) /\ KeepButSup
  \/ SupMessage /\ KeepButSup
  \/ \E how \in OpenEnds : SupConnEnds(how) /\ KeepButSup
  \/ SupSleep /\ KeepButSup
  \/ SupBackoff /\ KeepButSup

SupSpec == Init /\ [][SupNext]_vars /\ WF_vars(SupStep /\ KeepButSup)

\* The summary stream: one producer, the store, and a subscriber of
\* /api/stream/summary.
StreamSubs == {"s1"}

StreamNext ==
  \/ Tick /\ Keep
  \/ RecordStart("w1", "aa", "x", NoTs) /\ Keep
  \/ WriterStep("w1") /\ Keep
  \/ \E s \in StreamSubs : StreamConnect(s) /\ KeepButStream
  \/ \E s \in StreamSubs : StreamVersion(s) /\ KeepButStream
  \/ \E s \in StreamSubs : StreamItems(s) /\ KeepButStream
  \/ \E s \in StreamSubs, rest \in RestOutcomes : StreamRest(s, rest) /\ KeepButStream
  \/ \E s \in StreamSubs : StreamYield(s) /\ KeepButStream
  \/ \E s \in StreamSubs : StreamWait(s) /\ KeepButStream
  \/ \E s \in StreamSubs : WaitCheck(s) /\ Keep
  \/ \E s \in StreamSubs : WaitTimeout(s) /\ Keep
  \/ \E s \in StreamSubs : WaitReacquire(s) /\ Keep
  \/ \E s \in StreamSubs : StreamWaitReturns(s) /\ KeepButStream
  \/ \E s \in StreamSubs : StreamBeat(s) /\ KeepButStream
  \/ \E s \in StreamSubs : StreamDisconnect(s) /\ KeepButStream

\* A producer inside record() runs on; a connected subscriber runs on, and
\* gets the lock if it keeps asking; a timed wait ends.
StreamFairness ==
  /\ WF_vars(WriterStep("w1") /\ Keep)
  /\ \A s \in StreamSubs :
       /\ SF_vars(StreamStep(s) /\ KeepButStream)
       /\ WF_vars(WaitCheck(s) /\ Keep)
       /\ WF_vars(WaitTimeout(s) /\ Keep)
       /\ SF_vars(WaitReacquire(s) /\ Keep)

StreamSpec == Init /\ [][StreamNext]_vars /\ StreamFairness

\* Producers, a reader and subscribers that all go through the one lock.
\* A subscriber asks for a change after the current version, so it waits.
BlockNext ==
  \/ \E w \in Writers : RecordCall(w, "aa", "x", NoTs) /\ Keep
  \/ \E w \in Writers : RecordEnter(w) /\ Keep
  \/ \E w \in Writers : WriterStep(w) /\ Keep
  \/ \E r \in Readers, op \in {"items", "get_ssids"} : ReaderWant(r, op, "aa") /\ Keep
  \/ \E r \in Readers : ReaderEnter(r) /\ Keep
  \/ \E r \in Readers : ReaderStep(r) /\ Keep
  \/ \E s \in Subs : WaitCall(s, ver, StreamTimeout) /\ Keep
  \/ \E s \in Subs : WaitCheck(s) /\ Keep
  \/ \E s \in Subs : WaitTimeout(s) /\ Keep
  \/ \E s \in Subs : WaitReacquire(s) /\ Keep
  \/ \E s \in Subs : WaitExit(s) /\ Keep

\* A thread that holds the lock runs on, and a producer or reader blocked on
\* the lock gets it when it is free again and again.  Nothing is assumed of a
\* subscriber that sleeps in its wait, and nothing of the clock.
BlockFairness ==
  /\ \A w \in Writers : WF_vars(WriterStep(w) /\ Keep) /\ SF_vars(RecordEnter(w) /\ Keep)
  /\ \A r \in Readers : WF_vars(ReaderStep(r) /\ Keep) /\ SF_vars(ReaderEnter(r) /\ Keep)
  /\ \A s \in Subs : WF_vars(WaitCheck(s) /\ Keep) /\ WF_vars(WaitExit(s) /\ Keep)

BlockSpec == Init /\ [][BlockNext]_vars /\ BlockFairness

\* The scheduling the liveness of wait_for_change() rests on: the clock
\* advances (Tick is held back only while a timeout is still to be added to
\* the clock), a thread that holds the lock runs on, a wait that has timed
\* out ends, and a thread that keeps finding the lock free at times gets it.
WaitFairness ==
  /\ SF_vars(Tick /\ Keep)
  /\ \A w \in Writers : WF_vars(WriterStep(w) /\ Keep)
  /\ \A r \in Readers : WF_vars(ReaderStep(r) /\ Keep)
  /\ \A s \in Subs :
       /\ WF_vars(WaitCheck(s) /\ Keep)
       /\ WF_vars(WaitTimeout(s) /\ Keep)
       /\ SF_vars(WaitReacquire(s) /\ Keep)
       /\ WF_vars(WaitExit(s) /\ Keep)

\* One producer and the subscribers, all after the one lock.
FairNext ==
  \/ Tick /\ Keep
  \/ RecordStart("w1", "aa", "x", NoTs) /\ Keep
  \/ WriterStep("w1") /\ Keep
  \/ \E s \in Subs, since \in 0 .. ver, timeout \in Timeouts :
       WaitCall(s, since, timeout) /\ Keep
  \/ \E s \in Subs : WaitCheck(s) /\ Keep
  \/ \E s \in Subs : WaitTimeout(s) /\ Keep
  \/ \E s \in Subs : WaitReacquire(s) /\ Keep
  \/ \E s \in Subs : WaitExit(s) /\ Keep

FairWaitSpec == Init /\ [][FairNext]_vars /\ WaitFairness

\* The store under producers, the clock, and a caller of items() whose
\* results are kept with the version the store had inside the call.
KeepButSeen ==
  UNCHANGED <<feedVars, supVars, streamVars, scoreVars, candVars, extractVars, wigleVars, ksVars>>

\* Lines 107-116: items() runs under the lock; the history gets the version
\* the store has at that moment and the list returned.
ObserveItems(r) ==
  /\ ReaderItems(r)
  /\ seen' = seen \cup {<<ver, ItemsOf(Prune(by_mac, now))>>}
  /\ KeepButSeen

ObserveNext ==
  \/ Tick /\ Keep
  \/ \E w \in Writers, mac \in MacInputs, ts \in TsInputs : RecordStart(w, mac, "x", ts) /\ Keep
  \/ \E w \in Writers : WriterStep(w) /\ Keep
  \/ \E r \in Readers : ReaderCall(r, "items", "aa") /\ Keep
  \/ \E r \in Readers : ObserveItems(r)
  \/ \E r \in Readers : ReaderExit(r) /\ Keep

ObserveSpec == Init /\ [][ObserveNext]_vars

\* ------------------------------------------------------------------ claims
\* No producer is between its entry into the lock and its return.
WritersIdle == \A w \in Writers : pc[w] \in {"idle", "rejected"}

\* The records a reader can see: no producer holds the lock.
Visible == lock \notin Writers

ResultOf(r) == {rl[r].res[i] : i \in 1 .. Len(rl[r].res)}

\* C1: whenever an identifier is visible in the store, its last_seen is the
\* largest timestamp of all record() calls made for it so far, whatever the
\* order of the calls and whatever was pruned in between; and the last_seen
\* of a stored record never decreases.
C1_LastSeenIsMax ==
  /\ [](Visible => \A rec \in Recs(by_mac) : rec.ts = g_maxTs[rec.mac])
  /\ [][\A m \in StoredMacs :
          (Has(by_mac, m) /\ Has(by_mac', m)) => Get(by_mac', m).ts >= Get(by_mac, m).ts]_vars

\* A record() with an older timestamp than the stored one has updated the
\* record, which keeps the newer time.
C1_Witness ==
  \E w \in Writers :
    /\ pc[w] = "add"
    /\ Has(by_mac, wl[w].mac)
    /\ Get(by_mac, wl[w].mac).ts > wl[w].t

\* C2: in every reachable state every record holds at most max_ssids names.
C2_NamesCapped ==
  \A rec \in Recs(by_mac) : Cardinality(rec.ssids) <= max_ssids

\* A record() has passed the cap test with a name the full record lacks.
C2_Witness ==
  \E w \in Writers :
    /\ pc[w] = "prune"
    /\ Has(by_mac, wl[w].mac)
    /\ Cardinality(Get(by_mac, wl[w].mac).ssids) = max_ssids
    /\ wl[w].s \notin Get(by_mac, wl[w].mac).ssids

\* C3: items() called at time now returns exactly the stored records with
\* last_seen >= now - ttl, with their stored times.
C3_SnapshotExactlyLive ==
  [][\A r \in Readers :
       (pc[r] = "rbody" /\ rl[r].op = "items" /\ pc'[r] = "rexit") =>
         {[mac |-> x.mac, ts |-> x.ts] : x \in ResultOf(r)'}
           = {[mac |-> rec.mac, ts |-> rec.ts] :
                rec \in {q \in Recs(by_mac) : q.ts >= now - ttl}}]_vars

\* items() has returned a record on the boundary last_seen = now - ttl and has
\* left out an identifier that was recorded before.
C3_Witness ==
  \E r \in Readers :
    /\ pc[r] = "rexit" /\ rl[r].op = "items"
    /\ \E x \in ResultOf(r) : x.ts = now - ttl
    /\ \E m \in StoredMacs : g_maxTs[m] >= 0 /\ m \notin {x.mac : x \in ResultOf(r)}

\* C4: get_ssids(identifier) returns the empty list for an identifier whose
\* record is stale (last_seen < now - ttl) at the time of the call.
C4_StaleNamesHidden ==
  [][\A r \in Readers :
       ( /\ pc[r] = "rbody" /\ rl[r].op = "get_ssids" /\ pc'[r] = "rexit"
         /\ Has(by_mac, rl[r].arg)
         /\ Get(by_mac, rl[r].arg).ts < now - ttl )
       => rl'[r].res = <<>>]_vars

\* C5: the version counter goes up by exactly 1 in every record() call that
\* gets past the identifier check, at the store of `_ver += 1`, and changes
\* in no other step: version(), items(), get_ssids() and wait_for_change()
\* leave it as it is, and it never decreases.
C5_VersionCountsRecords ==
  /\ [](\A w \in Writers : pc[w] = "release" => ver = g_done + 1)
  /\ [][IF \E w \in Writers : pc[w] = "verstore" /\ pc'[w] = "notify"
        THEN ver' = ver + 1
        ELSE ver' = ver]_vars

\* Two record() calls have returned; version() is returning 2 while a
\* subscriber is inside wait_for_change().
C5_Witness ==
  /\ ver = 2 /\ g_done = 2
  /\ \E r \in Readers : pc[r] = "rexit" /\ rl[r].op = "version" /\ rl[r].res = <<2>>
  /\ \E s \in Subs : pc[s] = "reacquire"

\* C6: wait_for_change(since_ver, timeout) misses no change: it is about to
\* return false only while the version equals since_ver, and it returns true
\* if a record() bumped the version after the call took the lock.
C6_NoMissedChange ==
  \A s \in Subs :
    pc[s] = "wexit" =>
      /\ (~sl[s].result => ver = sl[s].since)
      /\ (ver # sl[s].start => sl[s].result)

\* A subscriber that found the version unchanged has waited, a record() came
\* in, and the call is returning true.
C6_Witness ==
  \E s \in Subs :
    /\ pc[s] = "wexit" /\ sl[s].result
    /\ sl[s].endtime # NoEnd
    /\ sl[s].since = sl[s].start

\* C7: every wait_for_change() call returns; it returns false only once its
\* timeout has run out with the version still equal to since_ver; and a
\* caller that has returned is not on the waiter list.
C7_WaitReturns ==
  /\ \A s \in Subs : (pc[s] # "idle") ~> (pc[s] = "idle")
  /\ \A s \in Subs : (pc[s] \in {"waiting", "reacquire"} /\ ver # sl[s].since)
                         ~> (pc[s] = "wexit" /\ sl[s].result)
  /\ [](\A s \in Subs :
          (pc[s] = "wexit" /\ ~sl[s].result) =>
            (sl[s].endtime # NoEnd /\ now >= sl[s].endtime /\ ver = sl[s].since))
  /\ [](\A s \in Subs : pc[s] \in {"idle", "wcheck", "wexit"} => s \notin waiters)

\* A subscriber has waited until its timeout ran out, no record() came in,
\* and the call is returning false.
C7_Witness ==
  \E s \in Subs :
    /\ pc[s] = "wexit" /\ ~sl[s].result
    /\ sl[s].timeout > 0
    /\ s \notin waiters

\* The record() calls whose update of the record map is complete.
Applied ==
  g_done + Cardinality({w \in Writers : pc[w] \in {"verload", "verstore", "notify", "release"}})

\* C8: no update is lost under any interleaving of producers: once the
\* record() calls made have all returned, the version equals their number and
\* the store equals the calls applied whole, one after the other (so a stored
\* record holds the names the cap let in and the largest time recorded); and
\* items() returns no record that mixes one call's time with a half-applied
\* other call.
C8_NoLostUpdates ==
  /\ WritersIdle =>
       /\ ver = g_done
       /\ by_mac = g_by_mac
       /\ \A rec \in Recs(by_mac) : rec.ts = g_maxTs[rec.mac]
  /\ \A r \in Readers :
       (pc[r] = "rexit" /\ rl[r].op = "items") => rl[r].res = ItemsOf(g_by_mac)

\* Three calls have returned and left one record with two names and a second
\* record.
C8_Witness ==
  /\ WritersIdle /\ g_done = 3 /\ Len(by_mac) = 2
  /\ \E rec \in Recs(by_mac) : Cardinality(rec.ssids) = 2

\* C9: the version is never ahead of the records: in no state has the counter
\* been bumped for a call whose update of the map is not complete, and a
\* reader that holds the lock sees the version and the records of the same
\* whole calls.
C9_VersionNotAhead ==
  /\ ver <= Applied
  /\ \A r \in Readers :
       pc[r] \in {"rbody", "rexit"} => (ver = g_done /\ by_mac = g_by_mac)

\* version() is returning 2 and both calls' records are in the store.
C9_Witness ==
  \E r \in Readers :
    /\ pc[r] = "rexit" /\ rl[r].op = "version" /\ rl[r].res = <<2>>
    /\ Len(by_mac) = 2

\* C10: record() with an identifier that is empty or None after normalisation
\* is a no-op: it returns at once, the record map and the version are as they
\* were, nothing is pruned and no waiting subscriber is woken; no record with
\* an empty identifier is ever stored.
C10_EmptyIdIsNoOp ==
  /\ [](\A rec \in Recs(by_mac) : rec.mac # "")
  /\ [](\A w \in Writers : pc[w] = "rejected" => lock # w)
  /\ [][\A w \in Writers :
          (pc'[w] # pc[w] /\ "rejected" \in {pc[w], pc'[w]}) =>
             /\ UNCHANGED <<by_mac, ver, waiters, lock, sl, wl>>
             /\ \A s \in Subs : pc'[s] = pc[s]
             /\ (pc[w] = "rejected" /\ pc'[w] # "rejected" => pc'[w] = "idle")]_vars

\* record(None, ...) or record("", ...) is returning while a stale record is in
\* the store and a subscriber is blocked in its wait.
C10_Witness ==
  \E w \in Writers :
    /\ pc[w] = "rejected"
    /\ \E rec \in Recs(by_mac) : rec.ts < now - ttl
    /\ \E s \in Subs : pc[s] = "waiting" /\ s \in waiters

\* C11: every record items() returns carries as ssid_count the size of the
\* whole stored name set, the wildcard "" and hidden names included, and as
\* ssids the stored names without the wildcard and without the hidden names,
\* in ascending order; for any set of hidden names.
C11_CountFullNamesClean ==
  /\ \A r \in Readers :
       (pc[r] = "rexit" /\ rl[r].op = "items") =>
         /\ Len(rl[r].res) = Len(by_mac)
         /\ \A i \in 1 .. Len(rl[r].res) :
              LET x == rl[r].res[i]
                  rec == Get(by_mac, x.mac)
              IN /\ Has(by_mac, x.mac)
                 /\ x.ssid_count = Cardinality(rec.ssids)
                 /\ {x.ssids[k] : k \in 1 .. Len(x.ssids)} = (rec.ssids \ {""}) \ IGNORED
                 /\ \A k \in 1 .. Len(x.ssids) - 1 : Rank(x.ssids[k]) < Rank(x.ssids[k + 1])
  /\ \A rec \in Recs(by_mac), ig \in SUBSET {"x", "y"} :
       LET x == RenderWith(rec, ig)
       IN /\ x.ssid_count = Cardinality(rec.ssids)
          /\ {x.ssids[k] : k \in 1 .. Len(x.ssids)} = (rec.ssids \ {""}) \ ig
          /\ \A k \in 1 .. Len(x.ssids) - 1 : Rank(x.ssids[k]) < Rank(x.ssids[k + 1])

\* items() is returning one record for an identifier recorded with a name
\* and with the wildcard: one displayed name, count 2.
C11_Witness ==
  \E r \in Readers :
    /\ pc[r] = "rexit" /\ rl[r].op = "items"
    /\ Len(rl[r].res) = 1
    /\ rl[r].res[1].ssids = <<"x">>
    /\ rl[r].res[1].ssid_count = 2
    /\ Get(by_mac, rl[r].res[1].mac).ssids = {"", "x"}

\* C12: whatever a feed message holds, the handler either hands exactly one
\* record() call to the store or leaves the records and the version as they
\* were, and no exception leaves it.
C12_HandlerForwardsOrDrops ==
  [][\A w \in Writers :
       (hm[w] = NoMsg /\ hm'[w] # NoMsg) =>
         /\ pc'[w] # "raised"
         /\ by_mac' = by_mac /\ ver' = ver
         /\ pc'[w] \in {"dropped", "rejected", "upd"}]_vars

\* The positions of the supervisor loop.
SupPositions == {"init", "top", "connecting", "opened", "open", "sleep", "slept"}
InRun == {"connecting", "opened", "open"}

\* C13: the supervisor loop has no terminal state: however a connection
\* attempt or a connection ends, the thread goes on to time.sleep with the
\* current backoff and then starts a new attempt; every attempt but the first
\* is preceded by a sleep; and at most one connection is open at any time.
C13_LoopNeverEnds ==
  /\ [](spc \in SupPositions)
  /\ (spc = "sleep") ~> (spc = "connecting")
  /\ [][(spc \in InRun /\ spc' \notin InRun) => spc' = "sleep"]_vars
  /\ [][(spc = "sleep" /\ spc' # "sleep") =>
          (spc' = "slept" /\ (Len(delays') > Len(delays) => delays'[Len(delays')] = backoff))]_vars
  /\ [][(spc # "connecting" /\ spc' = "connecting") => (attempts = 0 \/ slept)]_vars
  /\ [](Cardinality(conns) <= 1)

\* After a clean close the thread has slept and is connecting again, with no
\* connection left open.
C13_Witness ==
  /\ spc = "connecting" /\ ended = "clean close"
  /\ attempts >= 2 /\ Len(delays) >= 1
  /\ conns = {}

RECURSIVE Pow(_, _)
Pow(b, e) == IF e = 0 THEN 1 ELSE b * Pow(b, e - 1)

\* min(1.7^j, 30) in the unit of backoff; 1.7^j is above 30 from j = 7 on.
CappedPower(j) == IF j >= 7 THEN BackoffCap ELSE Min(Pow(17, j) * Pow(10, 7 - j), BackoffCap)

\* C14: the delays slept are 1, 1.7, 1.7^2, ... capped at 30: the k-th delay
\* is min(1.7^(k-1), 30), no delay is above 30 and no delay is smaller than
\* the one before it.
C14_BackoffSequence ==
  \A k \in 1 .. Len(delays) :
    /\ delays[k] = CappedPower(k - 1)
    /\ delays[k] <= BackoffCap
    /\ k > 1 => delays[k - 1] <= delays[k]

\* The delays have grown up to the cap and stayed there.
C14_Witness ==
  /\ Len(delays) >= 9
  /\ delays[1] = BackoffInit
  /\ delays[7] < BackoffCap
  /\ delays[8] = BackoffCap /\ delays[9] = BackoffCap

\* C15: once the connection has reached Subscribed the backoff is back at its
\* initial value: the sleep that follows the end of a connection on which the
\* subscribe message was sent lasts 1 second.
C15_ResetOnSubscribed ==
  (spc = "sleep" /\ subscribed) => backoff = BackoffInit

\* The summary the records of DevA, DevB and DevC stand for: DevB has not
\* probed; DevC is newer than DevA.
RestExpected(rest) ==
  IF rest = RestDevices(<<DevA, DevB, DevC>>)
  THEN <<[mac |-> "CC", ts |-> 2, ssids |-> <<"y">>, ssid_count |-> 1],
         [mac |-> "AA", ts |-> 1, ssids |-> <<"x">>, ssid_count |-> 2]>>
  ELSE <<>>

\* C16: _current_summary_items() returns the snapshot of the store exactly
\* when the store holds a record that is live at the time of the items()
\* call; otherwise it asks the sensor and returns the summary of the devices
\* it got, and the empty list when the query failed.
C16_SummarySource ==
  [][\A s \in Subs :
       /\ (spos[s] = "snap" /\ spos'[s] # "snap") =>
            LET live == {rec \in Recs(by_mac) : rec.ts >= now - ttl}
            IN IF live # {}
               THEN /\ spos'[s] = "yield"
                    /\ Len(payload'[s]) = Cardinality(live)
                    /\ {[mac |-> x.mac, ts |-> x.ts] :
                          x \in {payload'[s][i] : i \in 1 .. Len(payload'[s])}}
                         = {[mac |-> rec.mac, ts |-> rec.ts] : rec \in live}
               ELSE spos'[s] = "rest"
       /\ (spos[s] = "rest" /\ spos'[s] # "rest") =>
            /\ spos'[s] = "yield"
            /\ g_snap'[s].rest \in RestOutcomes
            /\ payload'[s] = RestExpected(g_snap'[s].rest)]_vars

\* A record was stored and has expired; the summary about to be yielded is
\* the one of the sensor's devices.
C16_Witness ==
  \E s \in Subs :
    /\ spos[s] = "yield"
    /\ ~g_snap[s].live /\ g_snap[s].rest = RestDevices(<<DevA, DevB, DevC>>)
    /\ Len(payload[s]) = 2
    /\ g_done >= 1

\* A subscriber's generator yields in this step.
Emits(s) == emitted'[s] # emitted[s] /\ emitted'[s].kind # "none"

\* The first emission is a summary; a later emission is a summary exactly
\* when the wait before it found the version different from last_ver, and a
\* keep-alive exactly when that wait timed out with the version unchanged.
EmissionsFollowWait ==
  \A s \in Subs :
    /\ (Emits(s) /\ emitted[s].n = 0) => emitted'[s].kind = "data"
    /\ (Emits(s) /\ emitted[s].n > 0) =>
         /\ emitted'[s].kind = "data" <=> changed[s]
         /\ emitted'[s].kind = "keep-alive" <=> ~changed[s]
    /\ (spos[s] = "inwait" /\ spos'[s] # "inwait") =>
         /\ changed'[s] <=> ver # last_ver[s]
         /\ ~changed'[s] => (sl[s].endtime # NoEnd /\ now >= sl[s].endtime)

\* C17 as stated: the emissions follow the wait, and no keep-alive is yielded
\* while the store version differs from the subscriber's last_ver.
C17_KeepAliveOnlyWhenUnchanged ==
  [][/\ EmissionsFollowWait
     /\ \A s \in Subs :
          (Emits(s) /\ emitted'[s].kind = "keep-alive") => ver = last_ver[s]]_vars

\* C17, amended: the emissions follow the wait: the first is a summary, a
\* later one is a summary exactly when the wait returned true and a
\* keep-alive exactly when the wait timed out with the version equal to
\* last_ver at its last check under the lock; a record() that lands after that
\* check does not stop the keep-alive, and the next wait returns true for it.
C17_EmissionsFollowWait ==
  [][/\ EmissionsFollowWait
     /\ \A s \in Subs :
          (Emits(s) /\ emitted'[s].kind = "keep-alive") => (~changed[s] /\ spos'[s] = "loop")]_vars

\* A keep-alive has been yielded after a timed-out wait, and a record() has
\* bumped the version since the wait's last check.
C17_Witness ==
  \E s \in Subs :
    /\ emitted[s].kind = "keep-alive" /\ emitted[s].n = 2
    /\ spos[s] = "loop"
    /\ ver # last_ver[s]

\* C18: no change of the store is lost by a connected subscriber: once the
\* version has reached v, a subscriber that stays connected yields a summary
\* taken at version v or later; and from a yield to the end of the next wait
\* the version it remembers is not newer than the summary it last yielded.
C18_NoChangeLost ==
  /\ \A s \in Subs, v \in 1 .. MaxCalls :
       (ver >= v /\ spos[s] # "off") ~> (spos[s] = "off" \/ emitted[s].ver >= v)
  /\ [](\A s \in Subs :
          spos[s] \in {"loop", "inwait", "beat"} => last_ver[s] <= emitted[s].ver)

\* A record() landed between the subscriber's version() and its items(): the
\* summary it has yielded is newer than the version it remembers.
C18_Witness ==
  \E s \in Subs :
    /\ spos[s] = "loop" /\ emitted[s].kind = "data"
    /\ emitted[s].ver > last_ver[s]

\* C19: a subscriber that sleeps in wait_for_change does not hold the store
\* lock, and every record(), items() and get_ssids() call that has reached the
\* lock gets it and returns, however many subscribers sleep and however long.
C19_CallsComplete ==
  /\ [](\A s \in Subs : pc[s] \in {"waiting", "reacquire"} => lock # s)
  /\ \A w \in Writers : (pc[w] = "lockwait") ~> (pc[w] = "idle")
  /\ \A r \in Readers : (pc[r] = "lockwait") ~> (pc[r] = "idle")

\* A producer and the reader are blocked on the lock while one subscriber
\* sleeps in its wait and the other holds the lock.
C19_Witness ==
  /\ \E w \in Writers : pc[w] = "lockwait"
  /\ \E r \in Readers : pc[r] = "lockwait"
  /\ \E s \in Subs : pc[s] = "waiting" /\ s \in waiters
  /\ lock \in Subs

\* A scored candidate without its score.
Unscored(c) == [lat |-> c.lat, lon |-> c.lon, ssid |-> c.ssid, lastupdt |-> c.lastupdt]

\* The place of a hit in the list handed in.
PlaceIn(cands, c) == CHOOSE i \in 1 .. Len(cands) : cands[i] = c

\* C20: score_candidates returns one scored candidate per raw hit, each with
\* the fields of its hit and a score; the list is ordered by score, largest
\* first, and candidates of equal score keep the order they came in.  No hits
\* give an empty list.
C20_SortedStableComplete ==
  sc_pc = "done" =>
    LET cands == sc_in.candidates
    IN /\ Len(sc_out) = Len(cands)
       /\ {Unscored(sc_out[j]) : j \in 1 .. Len(sc_out)} = {cands[i] : i \in 1 .. Len(cands)}
       /\ \A j \in 1 .. Len(sc_out) : sc_out[j].score \in Nat
       /\ \A j, k \in 1 .. Len(sc_out) :
            j < k =>
              /\ sc_out[j].score >= sc_out[k].score
              /\ sc_out[j].score = sc_out[k].score =>
                   PlaceIn(cands, Unscored(sc_out[j])) < PlaceIn(cands, Unscored(sc_out[k]))

\* Three hits came back in another order than they went in, two of them with
\* the same score.
C20_Witness ==
  /\ sc_pc = "done" /\ Len(sc_out) = 3
  /\ sc_out[1].score > sc_out[2].score
  /\ sc_out[2].score = sc_out[3].score
  /\ Unscored(sc_out[1]) = sc_in.candidates[3]

\* The names of a list.
NameSet(names) == {names[i] : i \in 1 .. Len(names)}

\* A request for candidates has been answered with a scored list.
Scored == cd.pc = "done" /\ cd.route = "candidates" /\ cd.status = 200

\* C21: for every candidate the co-probe weight is the number of the device's
\* other names that have a hit within the radius of the candidate, divided by
\* max(1, number of the device's other names); it is 0 for a device with one
\* name and never above 1.  The fractions are compared by cross-multiplication.
C21_CoprobeIsShareOfOtherNames ==
  Scored =>
    \A i \in 1 .. Len(cd.raw_candidates) :
      LET c == cd.raw_candidates[i]
          others == NameSet(cd.dev_ssids) \ {c.ssid}
          near == {n \in others : HasHitNear(cd.raw_candidates, n, c.lat, c.lon)}
          cnt == CoprobeCount(cd.raw_candidates, cd.dev_ssids, c.lat, c.lon, c.ssid)
          denom == CoprobeDenom(cd.dev_ssids)
      IN /\ cnt * Max(1, Cardinality(others)) = Cardinality(near) * denom
         /\ cnt <= denom
         /\ Cardinality(NameSet(cd.dev_ssids)) = 1 => cnt = 0

\* The distance of a scored candidate from the reference point of the call.
FromBase(c) == haversine_km(c.lat, c.lon, sc_in.base[1], sc_in.base[2])

\* Two candidates of the list returned that differ in nothing but their
\* distance from the reference point: the j-th is nearer than the k-th.
NearerTwin(j, k) ==
  /\ sc_out[j].ssid = sc_out[k].ssid
  /\ coprobe(sc_in.candidates, sc_in.device_ssids, sc_out[j].lat, sc_out[j].lon, sc_out[j].ssid)
       = coprobe(sc_in.candidates, sc_in.device_ssids, sc_out[k].lat, sc_out[k].lon, sc_out[k].ssid)
  /\ FromBase(sc_out[j]) < FromBase(sc_out[k])

\* C22, as claimed: with a reference point, of two candidates that are equal
\* in all else the farther has the strictly lower score and comes after the
\* nearer.
C22_FartherStrictlyLower ==
  (sc_pc = "done" /\ sc_in.base # <<>>) =>
    \A j, k \in 1 .. Len(sc_out) :
      NearerTwin(j, k) => sc_out[k].score < sc_out[j].score /\ j < k

\* C22, amended: the farther candidate never has the higher score and never
\* comes before a nearer one of higher score; its score is strictly lower, and
\* it comes after, whenever the proximity weight of the nearer one has not
\* underflowed to zero.
C22_FartherNeverHigher ==
  (sc_pc = "done" /\ sc_in.base # <<>>) =>
    \A j, k \in 1 .. Len(sc_out) :
      NearerTwin(j, k) =>
        /\ sc_out[k].score <= sc_out[j].score
        /\ FromBase(sc_out[j]) < UnderflowKm => (sc_out[k].score < sc_out[j].score /\ j < k)
        /\ FromBase(sc_out[j]) >= UnderflowKm => sc_out[k].score = sc_out[j].score

\* The candidate 5 km away went in first and came out second, after its twin
\* at the reference point.
C22_Witness ==
  /\ sc_pc = "done" /\ sc_in.base = <<0, 0>> /\ Len(sc_out) = 2
  /\ sc_in.candidates[1].lat = 5 /\ sc_in.candidates[2].lat = 0
  /\ NearerTwin(1, 2)
  /\ sc_out[1].lat = 0 /\ sc_out[2].lat = 5
  /\ sc_out[2].score < sc_out[1].score

\* C23: /api/summary and /api/candidates answer with status 200 and a list,
\* whatever the sensor and the geolocation search do.
C23_ReadPathNeverFails ==
  cd.pc = "done" => cd.status = 200

\* The handler has called record() for the message it is handling.
Forwarded(w) == hm[w] # NoMsg /\ pc[w] \notin {"dropped", "raised"}

\* The event-category name of a decoded message, "" without one.
EventName(js) ==
  IF js.k # "obj" THEN JStr("")
  ELSE PyOr(JGet(js, "event"), PyOr(JGet(js, "kismet.eventbus.event"), JStr("")))

\* C24: a decoded message is forwarded to the store exactly when an
\* identifier was found in it and it is not the case that a category name is
\* present, does not indicate the probe category, and no probed name was
\* found.
C24_ForwardedIffIdentified ==
  \A w \in Writers :
    hm[w].kind = "json" =>
      LET js == hm[w].js
          found == Truthy(_deep_find_first(js, MacKeys))
          named == Truthy(EventName(js))
          probe == EventName(js).k = "str" /\ NamesProbe(EventName(js).s)
          ssid == _deep_find_first(js, SsidKeys)
      IN Forwarded(w) <=> (found /\ ~(named /\ ~probe /\ ssid = JNull))

\* The value of the first key of the list that occurs anywhere in the
\* payload, None when none occurs.
ByPriority(js, keys) ==
  LET there == {i \in 1 .. Len(keys) : _deep_find_first(js, <<keys[i]>>) # JNull}
  IN IF there = {} THEN JNull
     ELSE _deep_find_first(js, <<keys[CHOOSE i \in there : \A j \in there : i <= j]>>)

\* C26: the timestamp forwarded to the store is the value of the
\* highest-priority time key present anywhere in the payload, whatever its
\* depth: the probed-SSID record time before the base-device time.
C26_HighestPriorityTime ==
  \A w \in Writers :
    (hm[w].kind = "json" /\ pc[w] = "upd" /\ FeedTs(ByPriority(hm[w].js, TsKeys)) # NoTs) =>
      wl[w].t = FeedTs(ByPriority(hm[w].js, TsKeys))[1]

\* C25: no connection is kept open and read from unless its SUBSCRIBE message
\* was sent: a failure of the send ends the connection like any other error.
C25_ConsumedOnlySubscribed ==
  (spc = "open" /\ inbound > 0) => subscribed

\* C27: search_ssid returns at most page_cap hits; it sends no request once
\* the cap is reached or a page came without cursor or without results; and a
\* 429 answer makes it sleep and send the same request again, with the hits
\* and the cursor as they were and the search still running.
C27_CappedPaging ==
  /\ [](wg.res = "returned" => Len(wg.out) <= page_cap)
  /\ [][Len(wg'.reqs) > Len(wg.reqs) =>
          /\ ~CapReached(wg.out)
          /\ wg.last.kind \in {"none", "429", "page"}
          /\ wg.last.kind = "page" =>
               (~wg.last.capped /\ wg.last.cursor # 0 /\ ~wg.last.empty)
          /\ wg.last.kind = "429" =>
               (wg.slept /\ wg'.reqs[Len(wg'.reqs)] = wg.reqs[Len(wg.reqs)])]_vars
  /\ [][(wg.pc = "sent" /\ wg'.last.kind = "429") =>
          /\ wg'.out = wg.out /\ wg'.next_cursor = wg.next_cursor
          /\ wg'.res = "none" /\ wg'.pc = "sleep"]_vars

\* A search that was told to wait, asked for its second page again after the
\* delay, and returned with the cap reached in the middle of a page.
C27_Witness ==
  /\ wg.res = "returned" /\ Len(wg.out) = page_cap
  /\ Len(wg.reqs) = 3 /\ wg.reqs[2] # 0 /\ wg.reqs[3] = wg.reqs[2]
  /\ wg.last.kind = "page" /\ wg.last.capped /\ wg.last.cursor # 0

\* C28: for every shape of the probed-name map the extractor of the
\* by-identifier path returns the list of names that the extractor of the
\* recent-devices path returns.
C28_SameNames ==
  ex.pc = "done" =>
    /\ ex.kis.ok
    /\ ex.kis.v = [i \in 1 .. Len(ex.app) |-> JStr(ex.app[i])]

\* Every supervisor thread has left _run_loop.
LoopsExited == \A t \in 1 .. Len(ks.threads) : ks.threads[t].pc = "exited"

\* C29: after stop() the supervising loop eventually exits, and no connection
\* attempt is started after stop().
C29_StopEndsLoop ==
  /\ (ks.stop ~> LoopsExited)
  /\ [](~ks.late)

\* C30: however often and from however many threads start() is called, no
\* second supervisor thread is started.
C30_OneSupervisor ==
  Len(ks.threads) <= 1

\* C31: the version tracks every visible change of the store: two items()
\* calls made while the store has the same version return the same records.
C31_SameVersionSameItems ==
  \A p \in seen, q \in seen : p[1] = q[1] => p[2] = q[2]

====
